---- MODULE Spec2Model ----
(***************************************************************************)
(* Model of the thermal monitoring system: the debounce state machine of  *)
(* ThermalMonitor.procesar_detecciones (thermal_monitor.py) and the       *)
(* reader loop of CameraManager (camera_manager.py).                       *)
(***************************************************************************)
EXTENDS Integers, Sequences, FiniteSets, TLC

(***************************************************************************)
(* Configuration (config.py defaults) and bounds of the model.             *)
(***************************************************************************)
umbral_crear_evento == 3
umbral_cerrar_evento == 5
max_errores_consecutivos == 5
timeout_reconexion == 10
intervalo_heartbeat == 300
tiempo_foto_sin_deteccion == 5
tiempo_foto_con_deteccion == 2
hora_inicio == 6
hora_fin == 21
\* The last value of datetime.now().hour that validar accepts.
UltimaHora == 23
\* ThermalMonitorClient.__init__ (main.py)
cliente_umbral_crear_evento == 3
cliente_umbral_cerrar_evento == 5

\* Seconds slept or waited by the code.
EsperaFueraHorario == 10      \* time.sleep(10), reader outside operating hours
EsperaTrasFallo == 5          \* time.sleep(5) after a failed reconnection
EsperaTrasExcepcion == 1      \* time.sleep(1) in the reader's except handler
EnfriamientoApertura == 2     \* inicializar: at least 2 s after ultima_reconexion
TimeoutJoin == 5              \* thread.join(timeout=5)
EsperaHeartbeat == 30         \* time.sleep(30), tick of the heartbeat loop

\* time.time() when the model starts: any value that is at least
\* timeout_reconexion after the initial ultima_reconexion = 0.
Reloj0 == timeout_reconexion
\* Seconds of wall-clock time explored after Reloj0.
Horizonte == 11
MaxReloj == Reloj0 + Horizonte
\* Seconds explored after Reloj0 when only the heartbeat thread runs.
HorizonteHeartbeat == 630

\* Seconds after Reloj0 during which the stream and the operating hours
\* may fail; from then on the stream opens, every read succeeds and the
\* hours predicate is true. MargenSano seconds more are followed: the
\* longest sleep (10 s) and the longest read that can follow it.
HorizonteFallos == 11
RelojSano == Reloj0 + HorizonteFallos
MargenSano == 17
MaxRelojSano == RelojSano + MargenSano
MaxRelojHeartbeat == Reloj0 + HorizonteHeartbeat

\* Seconds after Reloj0 during which a running reader thread starts its
\* blocking calls; a thread that has been stopped is followed MargenParada
\* seconds more: the calls it can still make before it tests its flag.
HorizonteParada == 11
RelojParada == Reloj0 + HorizonteParada
MargenParada == 20
MaxRelojParada == RelojParada + MargenParada
\* Reader threads the main thread may create.
MaxHilos == 2

\* Longest sequence of samples fed to procesar_detecciones.
MaxMuestras == 12
\* Event ids the backend may answer with are 0..MaxIdEvento.
MaxIdEvento == 1
\* Samples taken by ejecutar_ciclo and evidence tasks it dispatches.
MaxMuestrasCiclo == 5
MaxTareas == 2
\* Seconds explored and samples taken when the sampling loop is timed.
HorizonteCadencia == 32
MaxRelojCadencia == Reloj0 + HorizonteCadencia
MaxMuestrasCadencia == 9
\* Samples taken when the access to the frame slot is followed step by step.
MaxMuestrasFrame == 3

\* Samples taken while the evidence of an event is followed to its end.
MaxMuestrasEvidencia == 11

\* Samples taken in and out of the operating hours.
MaxMuestrasHorario == 8
\* Samples taken when a stop is followed to the end of the three loops.
MaxMuestrasParada == 3
\* Hours below 0 and above 23 a Config under validation may hold.
MargenHoras == 1

\* Python's None, and an Optional[int] holding k.
None == << >>
Some(k) == << k >>

\* Python truthiness of an Optional[int]: None and 0 are falsy.
Truthy(v) == v # None /\ v # Some(0)

VARIABLES
    \* ThermalMonitor fields
    estado_actual,
    id_evento_activo,
    contador_sin_deteccion,
    contador_con_deteccion,
    \* observation of the calls made by the monitor
    historia,        \* hay_deteccion of every sample so far
    ultima,          \* what the last call of procesar_detecciones did
    intentos_racha,  \* calls of api.crear_evento in the current detection streak
    abiertos,        \* events created and not yet closed
    \* wall clock, time.time() in seconds
    reloj,
    \* CameraManager fields
    cap,                     \* "None", "cerrada", "abierta" or "degradada"
    frame_actual,
    frame_lock,              \* "libre", or who is inside `with self.frame_lock`
    thread_lectura,          \* None or Some(index into lectores)
    thread_lectura_running,
    errores_consecutivos,
    ultima_reconexion,
    \* threads running _leer_frames_continuamente, in creation order
    lectores,
    \* the thread calling the CameraManager methods
    pcM,
    limite_join,
    \* observation of the reader loop
    obs,
    \* ThermalMonitor heartbeat fields
    thread_heartbeat,        \* None or Some(index into latidos)
    thread_heartbeat_running,
    ultimo_heartbeat,
    \* threads running _heartbeat_loop, in creation order
    latidos,
    \* observation of the heartbeat loop
    obsH,
    \* ThermalMonitor.running and the position of the thread inside
    \* iniciar / ejecutar_ciclo
    running,
    pcC,
    \* start-up steps made by iniciar, with their results
    pasos,
    \* evidence tasks dispatched by procesar_imagen_con_detecciones
    tareas,
    \* observation of the current iteration of ejecutar_ciclo
    obsC,
    \* local variable ultimo_capture of ejecutar_ciclo
    ultimo_capture,
    \* observation of the timing of the iterations of ejecutar_ciclo
    obsT,
    \* the Config object handed to validar
    config,
    \* observation of validar and of esta_en_horario_operacion on it
    obsConfig,
    \* ThermalMonitorClient fields (main.py), fed the samples of the monitor
    cliente

varsMonitor == << estado_actual, id_evento_activo, contador_sin_deteccion,
                  contador_con_deteccion, historia, ultima, intentos_racha,
                  abiertos >>

varsCamara == << reloj, cap, frame_actual, frame_lock, thread_lectura,
                 thread_lectura_running, errores_consecutivos,
                 ultima_reconexion, lectores, pcM, limite_join, obs >>

varsHeartbeat == << thread_heartbeat, thread_heartbeat_running,
                    ultimo_heartbeat, latidos, obsH >>

varsCiclo == << running, pcC, pasos, tareas, obsC >>

varsCadencia == << ultimo_capture, obsT >>

varsConfig == << config, obsConfig >>

\* What the running ThermalMonitor never touches: the Config under
\* validation and the monolithic client.
varsAparte == << varsConfig, cliente >>

vars == << varsMonitor, varsCamara, varsHeartbeat, varsCiclo, varsCadencia,
           varsAparte >>

(***************************************************************************)
(* ThermalMonitor                                                          *)
(***************************************************************************)

\* What the backend may answer to api.crear_evento(): None on any failure,
\* otherwise the "evento_id" of the response.
RespuestasCrear == { None } \cup { Some(k) : k \in 0..MaxIdEvento }

SinLlamada == [ pidio_crear |-> FALSE, respuesta |-> None, cerro |-> FALSE,
                despachos |-> 0, id_despachado |-> None, id_antes |-> None,
                estado_antes |-> "sin_deteccion" ]

InitMonitor ==
    /\ estado_actual = "sin_deteccion"
    /\ id_evento_activo = None
    /\ contador_sin_deteccion = 0
    /\ contador_con_deteccion = 0
    /\ historia = << >>
    /\ ultima = SinLlamada
    /\ intentos_racha = 0
    /\ abiertos = 0

\* if self.contador_sin_deteccion >= self.config.umbral_cerrar_evento
AlcanzaUmbralCerrarMenor(c) == c >= umbral_cerrar_evento - 1
AlcanzaUmbralCerrarMayor(c) == c > umbral_cerrar_evento
AlcanzaUmbralCerrar(c) == c >= umbral_cerrar_evento

\* if self.contador_con_deteccion >= self.config.umbral_crear_evento
AlcanzaUmbralCrearMayor(c) == c > umbral_crear_evento
AlcanzaUmbralCrearIgual(c) == c = umbral_crear_evento
AlcanzaUmbralCrear(c) == c >= umbral_crear_evento

\* if self.id_evento_activo is None  (guard of api.crear_evento)
SinEventoActivoSiempre(id) == TRUE
SinEventoActivo(id) == id = None

\* if self.id_evento_activo is not None  (guard of the evidence dispatch)
DebeDespacharSegunEstado(id) == id # None /\ estado_actual = "evento_activo"
DebeDespacharSiempre(id) == TRUE
DebeDespachar(id) == id # None

\* procesar_detecciones, branch "not hay_deteccion"
ProcesarSinDeteccion ==
    LET sin == contador_sin_deteccion + 1
        cierra == AlcanzaUmbralCerrar(sin) /\ id_evento_activo # None
    IN  /\ contador_con_deteccion' = 0
        /\ contador_sin_deteccion' = IF AlcanzaUmbralCerrar(sin) THEN 0 ELSE sin
        /\ id_evento_activo' = IF cierra THEN None ELSE id_evento_activo
        /\ estado_actual' = IF cierra THEN "sin_deteccion" ELSE estado_actual
        /\ ultima' = [ SinLlamada EXCEPT !.cerro = cierra,
                                         !.id_antes = id_evento_activo,
                                         !.estado_antes = estado_actual ]
        /\ intentos_racha' = 0
        /\ abiertos' = IF cierra THEN abiertos - 1 ELSE abiertos

\* procesar_detecciones, branch "hay_deteccion"; respuesta is the answer of
\* api.crear_evento() if it is called.
ProcesarConDeteccion(respuesta) ==
    LET con == contador_con_deteccion + 1
        crea == AlcanzaUmbralCrear(con) /\ SinEventoActivo(id_evento_activo)
        id == IF crea THEN respuesta ELSE id_evento_activo
        despacha == DebeDespachar(id)
    IN  /\ contador_sin_deteccion' = 0
        /\ contador_con_deteccion' = con
        /\ id_evento_activo' = id
        /\ estado_actual' = IF crea /\ Truthy(id) THEN "evento_activo"
                            ELSE estado_actual
        /\ ultima' = [ pidio_crear |-> crea,
                       respuesta |-> IF crea THEN respuesta ELSE None,
                       cerro |-> FALSE,
                       despachos |-> IF despacha THEN 1 ELSE 0,
                       id_despachado |-> IF despacha THEN id ELSE None,
                       id_antes |-> id_evento_activo,
                       estado_antes |-> estado_actual ]
        /\ intentos_racha' = IF crea THEN intentos_racha + 1 ELSE intentos_racha
        /\ abiertos' = IF crea /\ respuesta # None THEN abiertos + 1 ELSE abiertos

\* One sample of ejecutar_ciclo with an empty list of detections.
MuestraSinDeteccion ==
    /\ Len(historia) < MaxMuestras
    /\ historia' = Append(historia, FALSE)
    /\ ProcesarSinDeteccion

\* One sample of ejecutar_ciclo with at least one detection.
MuestraConDeteccion ==
    /\ Len(historia) < MaxMuestras
    /\ historia' = Append(historia, TRUE)
    /\ \E respuesta \in RespuestasCrear : ProcesarConDeteccion(respuesta)

NextMonitor ==
    \/ MuestraSinDeteccion /\ UNCHANGED << varsCamara, varsHeartbeat, varsCiclo, varsAparte, varsCadencia >>
    \/ MuestraConDeteccion /\ UNCHANGED << varsCamara, varsHeartbeat, varsCiclo, varsAparte, varsCadencia >>

(***************************************************************************)
(* CameraManager                                                           *)
(***************************************************************************)

ObsInicial == [ fallos_seguidos |-> 0, pendiente |-> FALSE,
                intentos_pend |-> 0, fallidos_pend |-> 0,
                degradado_pend |-> FALSE,
                ultimo_intento |-> None, separacion |-> None,
                detenido |-> FALSE, escritura_tras_detener |-> FALSE,
                tras_detener |-> None, detenciones |-> 0,
                inicio_rechazado |-> FALSE,
                atrasado |-> FALSE,
                aviso |-> "ninguno" ]

\* CameraManager.__init__
InitCamara ==
    /\ reloj = Reloj0
    /\ cap = "None"
    /\ frame_actual = None
    /\ frame_lock = "libre"
    /\ thread_lectura = None
    /\ thread_lectura_running = FALSE
    /\ errores_consecutivos = 0
    /\ ultima_reconexion = 0
    /\ lectores = << >>
    /\ pcM = "libre"
    /\ limite_join = 0
    /\ obs = ObsInicial

Hilos == 1..Len(lectores)

\* threading.Thread.is_alive()
EstaVivo(l) == l.pc # "terminado"

Bloqueado(l) ==
    /\ l.pc \in { "dormido", "espera_reconexion", "leyendo" }
    /\ l.despierta > reloj

\* _verificar_estado_stream: the handle exists, is opened and reports a
\* positive width and height.
EstadoStreamOkSiempre == TRUE
EstadoStreamOkNunca == FALSE
EstadoStreamOk == cap = "abierta"

\* if self.errores_consecutivos >= self.max_errores_consecutivos
DemasiadosErroresMayor(e) == e > max_errores_consecutivos
DemasiadosErrores(e) == e >= max_errores_consecutivos

\* if tiempo_actual - self.ultima_reconexion < self.timeout_reconexion:
\*     time.sleep(self.timeout_reconexion - (tiempo_actual - self.ultima_reconexion))
FinEsperaReconexion ==
    IF reloj - ultima_reconexion < timeout_reconexion
    THEN ultima_reconexion + timeout_reconexion
    ELSE reloj

\* The thread enters _intentar_reconexion, called from the health check
\* ("salud"), from the failed read that reached the threshold ("forzada") or
\* from the except handler ("except").
EnReconexion(origen) ==
    [ pc |-> "espera_reconexion", despierta |-> FinEsperaReconexion,
      origen |-> origen ]

Dormido(hasta) == [ pc |-> "dormido", despierta |-> hasta, origen |-> "ninguno" ]

\* if not en_horario_callback(): time.sleep(10); continue
TrasFueraDeHorarioLeyendo ==
    [ pc |-> "leyendo", despierta |-> reloj, origen |-> "fuera_horario" ]
TrasFueraDeHorario ==
    [ pc |-> "dormido", despierta |-> reloj + EsperaFueraHorario,
      origen |-> "fuera_horario" ]

\* The thread ended at the loop condition.
Terminado == [ pc |-> "terminado", despierta |-> 0, origen |-> "ninguno" ]

\* The thread ended because an exception left _leer_frames_continuamente.
Caido == [ pc |-> "terminado", despierta |-> 0, origen |-> "excepcion" ]
EnCabeza == [ pc |-> "cabeza", despierta |-> reloj, origen |-> "ninguno" ]

ObsIntento(o) ==
    [ o EXCEPT !.intentos_pend = IF o.pendiente THEN @ + 1 ELSE @ ]

\* while self.thread_lectura_running: the flag is false, the loop ends.
LectorIgnoraBandera(t) ==
    /\ lectores[t].pc = "cabeza"
    /\ ~thread_lectura_running
    /\ UNCHANGED << reloj, cap, frame_actual, frame_lock, thread_lectura,
                    thread_lectura_running, errores_consecutivos,
                    ultima_reconexion, lectores, pcM, limite_join, obs >>

LectorTermina(t) ==
    /\ lectores[t].pc = "cabeza"
    /\ ~thread_lectura_running
    /\ lectores' = [ lectores EXCEPT ![t] = Terminado ]
    /\ UNCHANGED << reloj, cap, frame_actual, frame_lock, thread_lectura,
                    thread_lectura_running, errores_consecutivos,
                    ultima_reconexion, pcM, limite_join, obs >>

\* en_horario_callback() returned False: the iteration only sleeps.
LectorFueraDeHorario(t) ==
    /\ lectores[t].pc = "cabeza"
    /\ thread_lectura_running
    /\ lectores' = [ lectores EXCEPT ![t] = TrasFueraDeHorario ]
    /\ UNCHANGED << reloj, cap, frame_actual, frame_lock, thread_lectura,
                    thread_lectura_running, errores_consecutivos,
                    ultima_reconexion, pcM, limite_join, obs >>

\* if not self._verificar_estado_stream(): self._intentar_reconexion() ...
LectorStreamEnMalEstado(t) ==
    /\ lectores[t].pc = "cabeza"
    /\ thread_lectura_running
    /\ ~EstadoStreamOk
    /\ lectores' = [ lectores EXCEPT ![t] = EnReconexion("salud") ]
    /\ obs' = ObsIntento(obs)
    /\ UNCHANGED << reloj, cap, frame_actual, frame_lock, thread_lectura,
                    thread_lectura_running, errores_consecutivos,
                    ultima_reconexion, pcM, limite_join >>

\* How long cap.read() may block: it returns at once, or only after the
\* join timeout of a stop request has expired.
DuracionesLectura == { 0, TimeoutJoin + 1 }

\* ret, frame = self.cap.read()   (the call is made and blocks)
LectorEmpiezaLectura(t) ==
    /\ lectores[t].pc = "cabeza"
    /\ thread_lectura_running
    /\ EstadoStreamOk
    /\ \E d \in DuracionesLectura :
           lectores' = [ lectores EXCEPT ![t] =
               [ pc |-> "leyendo", despierta |-> reloj + d, origen |-> "ninguno" ] ]
    /\ UNCHANGED << reloj, cap, frame_actual, frame_lock, thread_lectura,
                    thread_lectura_running, errores_consecutivos,
                    ultima_reconexion, pcM, limite_join, obs >>

\* The thread is inside `with self.frame_lock:` of the loop.
Copiando == [ pc |-> "copiando", despierta |-> reloj, origen |-> "ninguno" ]

\* cap.read() returned a non-empty frame (ret and frame is not None and
\* frame.size > 0): `with self.frame_lock:` is entered when the lock is free.
LectorLeeFrame(t) ==
    /\ lectores[t].pc = "leyendo"
    /\ reloj >= lectores[t].despierta
    /\ frame_lock = "libre"
    /\ frame_lock' = "lector"
    /\ lectores' = [ lectores EXCEPT ![t] = Copiando ]
    /\ UNCHANGED << reloj, cap, frame_actual, thread_lectura,
                    thread_lectura_running, errores_consecutivos,
                    ultima_reconexion, pcM, limite_join, obs >>

\* self.frame_actual = frame.copy(), the lock is released, the counter is
\* reset, time.sleep(0.01).
LectorCopiaFrame(t) ==
    /\ lectores[t].pc = "copiando"
    /\ frame_actual' = Some("frame")
    /\ frame_lock' = "libre"
    /\ errores_consecutivos' = 0
    /\ lectores' = [ lectores EXCEPT ![t] = EnCabeza ]
    /\ obs' = [ obs EXCEPT !.fallos_seguidos = 0,
                           !.pendiente = FALSE,
                           !.intentos_pend = 0,
                           !.fallidos_pend = 0,
                           !.degradado_pend = FALSE,
                           !.escritura_tras_detener = @ \/ obs.detenido,
                           !.atrasado = FALSE ]
    /\ UNCHANGED << reloj, cap, thread_lectura, thread_lectura_running,
                    ultima_reconexion, pcM, limite_join >>

\* Observation of a failed steady-state read: the run of failed reads grows
\* and, when it reaches max_errores_consecutivos, a new count of the
\* reconnection attempts that follow is started.
ObsFalloLectura(o, reconecta) ==
    LET n == o.fallos_seguidos + 1
        umbral == n = max_errores_consecutivos
        base == IF umbral
                THEN [ o EXCEPT !.pendiente = TRUE, !.intentos_pend = 0,
                                !.fallidos_pend = 0, !.degradado_pend = FALSE ]
                ELSE [ o EXCEPT !.pendiente = FALSE ]
        contado == [ base EXCEPT !.fallos_seguidos = n ]
    IN  IF reconecta THEN ObsIntento(contado) ELSE contado

\* cap.read() returned no frame: count the error; at the threshold force a
\* reconnection, otherwise time.sleep(0.5).
LectorFalloLectura(t) ==
    LET e == errores_consecutivos + 1
    IN  /\ lectores[t].pc = "leyendo"
        /\ reloj >= lectores[t].despierta
        /\ errores_consecutivos' = e
        /\ lectores' = [ lectores EXCEPT ![t] =
               IF DemasiadosErrores(e) THEN EnReconexion("forzada") ELSE EnCabeza ]
        /\ obs' = ObsFalloLectura(obs, DemasiadosErrores(e))
        /\ UNCHANGED << reloj, cap, frame_actual, frame_lock, thread_lectura,
                        thread_lectura_running, ultima_reconexion, pcM,
                        limite_join >>

\* if self.on_error_callback: self.on_error_callback("error", error_msg)
\* inside the except handler: the callback returns, or raises.
ResultadosCallback == { "retorna", "excepcion" }

\* Where the except handler goes after its notification: an exception of the
\* callback is raised inside the handler, so nothing catches it.
TrasNotificar(e, cb) ==
    IF cb = "excepcion" THEN Caido
    ELSE IF DemasiadosErrores(e) THEN EnReconexion("except")
    ELSE Dormido(reloj + EsperaTrasExcepcion)

\* cap.read() raised: the except handler counts the error, notifies the
\* error callback, at the threshold calls _intentar_reconexion, and then
\* sleeps 1 s.
LectorExcepcionLectura(t) ==
    LET e == errores_consecutivos + 1
    IN  /\ lectores[t].pc = "leyendo"
        /\ reloj >= lectores[t].despierta
        /\ errores_consecutivos' = e
        /\ \E cb \in ResultadosCallback :
               /\ lectores' = [ lectores EXCEPT ![t] = TrasNotificar(e, cb) ]
               /\ obs' = ObsFalloLectura(obs,
                             DemasiadosErrores(e) /\ cb = "retorna")
        /\ UNCHANGED << reloj, cap, frame_actual, frame_lock, thread_lectura,
                        thread_lectura_running, ultima_reconexion, pcM,
                        limite_join >>

\* What inicializar() can meet: the handle opens and delivers the probe
\* frame, does not open, opens without a probe frame, or cv2 raises.
ResultadosApertura == { "ok", "no_abre", "sin_frame", "excepcion" }

\* self.cap after inicializar()
\* (variant that keeps the opened handle when the probe read fails)
CapTrasAperturaSinLiberar(r) ==
    CASE r \in { "ok", "sin_frame" } -> "abierta"
      [] r = "no_abre" -> "cerrada"
      [] OTHER -> "None"

\* self.cap after inicializar()
CapTrasApertura(r) ==
    CASE r = "ok" -> "abierta"
      [] r = "no_abre" -> "cerrada"
      [] OTHER -> "None"

\* The notification inicializar ends with: on_reconnect_callback after the
\* probe frame, on_error_callback on each of its failures.
AvisoDeApertura(ok) == IF ok THEN "reconexion" ELSE "error"

\* Observation of a call of inicializar made by _intentar_reconexion.
ObsInicializar(o, ok) ==
    [ o EXCEPT !.ultimo_intento = Some(reloj),
               !.separacion = IF o.ultimo_intento = None THEN None
                              ELSE Some(reloj - o.ultimo_intento[1]),
               !.fallidos_pend = IF o.pendiente /\ ~ok THEN @ + 1 ELSE @,
               !.fallos_seguidos = IF ok THEN 0 ELSE @,
               !.atrasado = IF ok /\ frame_actual # None THEN TRUE ELSE @,
               !.aviso = AvisoDeApertura(ok) ]

\* The counter after the reconnection returned to its caller in the loop:
\* (variant that resets it whatever the result)
ErroresTrasReconexionReinicia(origen, ok) == 0

\* The counter after the reconnection returned to its caller in the loop:
\* reset on success (also by inicializar itself); incremented on failure only
\* on the health-check path.
ErroresTrasReconexion(origen, ok) ==
    IF ok THEN 0
    ELSE IF origen = "salud" THEN errores_consecutivos + 1
    ELSE errores_consecutivos

\* Where the loop goes after the reconnection returned.
LectorTrasReconexion(origen, ok) ==
    IF origen = "except" THEN Dormido(reloj + EsperaTrasExcepcion)
    ELSE IF ok THEN EnCabeza
    ELSE Dormido(reloj + EsperaTrasFallo)

\* _intentar_reconexion after its spacing sleep: resultado = self.inicializar()
\* (with its own 2 s cool-down after ultima_reconexion), then the caller's
\* branch on the result.
LectorReconecta(t) ==
    /\ lectores[t].pc = "espera_reconexion"
    /\ reloj >= lectores[t].despierta
    /\ IF reloj - ultima_reconexion < EnfriamientoApertura
       THEN /\ lectores' = [ lectores EXCEPT ![t].despierta =
                                 ultima_reconexion + EnfriamientoApertura ]
            /\ cap' = "None"
            /\ UNCHANGED << errores_consecutivos, ultima_reconexion, obs >>
       ELSE \E r \in ResultadosApertura :
            LET ok == r = "ok"
                sig == LectorTrasReconexion(lectores[t].origen, ok)
            IN  /\ cap' = CapTrasApertura(r)
                /\ ultima_reconexion' = IF ok THEN reloj ELSE ultima_reconexion
                /\ errores_consecutivos' =
                       ErroresTrasReconexion(lectores[t].origen, ok)
                /\ lectores' = [ lectores EXCEPT ![t] = sig ]
                /\ obs' = ObsInicializar(obs, ok)
    /\ UNCHANGED << reloj, frame_actual, frame_lock, thread_lectura,
                    thread_lectura_running, pcM, limite_join >>

\* time.sleep returned.
LectorDespierta(t) ==
    /\ lectores[t].pc = "dormido"
    /\ reloj >= lectores[t].despierta
    /\ lectores' = [ lectores EXCEPT ![t] = EnCabeza ]
    /\ UNCHANGED << reloj, cap, frame_actual, frame_lock, thread_lectura,
                    thread_lectura_running, errores_consecutivos,
                    ultima_reconexion, pcM, limite_join, obs >>

\* The stream behind an opened handle breaks: isOpened() turns false or the
\* reported size drops to 0.
StreamSeDegrada ==
    /\ cap = "abierta"
    /\ cap' = "degradada"
    /\ obs' = [ obs EXCEPT !.degradado_pend = @ \/ obs.pendiente ]
    /\ UNCHANGED << reloj, frame_actual, frame_lock, thread_lectura,
                    thread_lectura_running, errores_consecutivos,
                    ultima_reconexion, lectores, pcM, limite_join >>

\* camera.inicializar() called by ThermalMonitor.iniciar before the reader
\* thread is started.
Inicializar ==
    /\ pcM = "libre"
    /\ thread_lectura = None
    /\ reloj - ultima_reconexion >= EnfriamientoApertura
    /\ \E r \in ResultadosApertura :
           /\ cap' = CapTrasApertura(r)
           /\ ultima_reconexion' = IF r = "ok" THEN reloj ELSE ultima_reconexion
           /\ errores_consecutivos' = IF r = "ok" THEN 0 ELSE errores_consecutivos
    /\ UNCHANGED << reloj, frame_actual, frame_lock, thread_lectura,
                    thread_lectura_running, lectores, pcM, limite_join, obs >>

\* if self.thread_lectura is not None and self.thread_lectura.is_alive(): return
LecturaYaCorriendoSegunBandera == thread_lectura_running
LecturaYaCorriendo ==
    thread_lectura # None /\ EstaVivo(lectores[thread_lectura[1]])

\* iniciar_lectura_continua
IniciarLectura ==
    /\ pcM = "libre"
    /\ IF LecturaYaCorriendo
       THEN /\ obs' = [ obs EXCEPT !.inicio_rechazado = TRUE ]
            /\ UNCHANGED << thread_lectura, thread_lectura_running,
                            errores_consecutivos, lectores >>
       ELSE /\ Len(lectores) < MaxHilos
            /\ errores_consecutivos' = 0
            /\ thread_lectura_running' = TRUE
            /\ lectores' = Append(lectores, EnCabeza)
            /\ thread_lectura' = Some(Len(lectores) + 1)
            /\ obs' = [ obs EXCEPT !.fallos_seguidos = 0, !.pendiente = FALSE,
                                   !.detenido = FALSE, !.tras_detener = None,
                                   !.detenciones = 0,
                                   !.inicio_rechazado = FALSE ]
    /\ UNCHANGED << reloj, cap, frame_actual, frame_lock, ultima_reconexion, pcM,
                    limite_join >>

\* obtener_frame: under frame_lock, a copy of frame_actual, or None while the
\* slot is empty.
obtener_frame == frame_actual

\* detener_lectura_continua up to the call of join(timeout=5); without a
\* thread the method returns at once.
DetenerLectura ==
    /\ pcM = "libre"
    /\ IF thread_lectura = None
       THEN UNCHANGED << thread_lectura_running, pcM, limite_join >>
       ELSE /\ thread_lectura_running' = FALSE
            /\ pcM' = "join"
            /\ limite_join' = reloj + TimeoutJoin
    /\ UNCHANGED << reloj, cap, frame_actual, frame_lock, thread_lectura,
                    errores_consecutivos, ultima_reconexion, lectores, obs >>

JoinPuedeRetornar ==
    \/ ~EstaVivo(lectores[thread_lectura[1]])
    \/ reloj >= limite_join

\* join(timeout=5) returns: the thread ended, or the timeout expired.
RetornaDetenerLectura ==
    /\ pcM = "join"
    /\ JoinPuedeRetornar
    /\ pcM' = "libre"
    /\ obs' = [ obs EXCEPT !.detenido = TRUE,
                           !.detenciones = IF @ < 2 THEN @ + 1 ELSE @,
                           !.tras_detener =
                               IF @ = None
                               THEN Some(<< thread_lectura_running, thread_lectura >>)
                               ELSE @ ]
    /\ UNCHANGED << reloj, cap, frame_actual, frame_lock, thread_lectura,
                    thread_lectura_running, errores_consecutivos,
                    ultima_reconexion, lectores, limite_join >>

\* liberar does not write the slot.
FrameTrasLiberarVacio == None
FrameTrasLiberar == frame_actual

\* liberar after its detener_lectura_continua returned: self.cap.release(),
\* self.cap = None. It is the last call ThermalMonitor makes on the camera.
LiberaCap ==
    /\ pcM = "libre"
    /\ thread_lectura = None \/ (obs.detenido /\ ~thread_lectura_running)
    /\ cap' = "None"
    /\ frame_actual' = FrameTrasLiberar
    /\ pcM' = "liberado"
    /\ UNCHANGED << reloj, frame_lock, thread_lectura, thread_lectura_running,
                    errores_consecutivos, ultima_reconexion, lectores,
                    limite_join, obs >>

(***************************************************************************)
(* Heartbeat thread of ThermalMonitor                                      *)
(***************************************************************************)

ObsHInicial == [ enviados |-> 0, tras_detener |-> None, detenciones |-> 0,
                 inicio_rechazado |-> FALSE,
                 inicio |-> 0, primero |-> None, ultimo_envio |-> None,
                 separacion |-> None, ultimo_mensaje |-> "ninguno" ]

\* ThermalMonitor.__init__, heartbeat fields
InitHeartbeat ==
    /\ thread_heartbeat = None
    /\ thread_heartbeat_running = FALSE
    /\ ultimo_heartbeat = 0
    /\ latidos = << >>
    /\ obsH = ObsHInicial

HilosHeartbeat == 1..Len(latidos)

EnJoin == pcM \in { "join", "join_heartbeat" }

\* while self.thread_heartbeat_running: the flag is false, the loop ends.
HeartbeatTermina(t) ==
    /\ latidos[t].pc = "cabeza"
    /\ ~thread_heartbeat_running
    /\ latidos' = [ latidos EXCEPT ![t] =
                        [ pc |-> "terminado", despierta |-> 0, hizo |-> "ninguno" ] ]
    /\ UNCHANGED << thread_heartbeat, thread_heartbeat_running,
                    ultimo_heartbeat, obsH, reloj, pcM, limite_join >>

\* if tiempo_actual - self.ultimo_heartbeat >= self.config.intervalo_heartbeat
ToqueHeartbeatEstricto == reloj - ultimo_heartbeat > intervalo_heartbeat
ToqueHeartbeat == reloj - ultimo_heartbeat >= intervalo_heartbeat

\* The message built for the heartbeat: the operating status inside the
\* operating hours, the waiting notice outside.
MensajeHeartbeat(en_horario) == IF en_horario THEN "operando" ELSE "fuera_horario"

\* Observation of one call of api.enviar_heartbeat that returned.
ObsEnvioHeartbeat(o, en_horario) ==
    [ o EXCEPT !.enviados = @ + 1,
               !.separacion = IF o.ultimo_envio = None THEN None
                              ELSE Some(reloj - o.ultimo_envio[1]),
               !.ultimo_envio = Some(reloj),
               !.primero = IF @ = None THEN Some(reloj) ELSE @,
               !.ultimo_mensaje = MensajeHeartbeat(en_horario) ]

\* One iteration of _heartbeat_loop: send the heartbeat if it is due, then
\* time.sleep(30); an exception while sending skips the update of
\* ultimo_heartbeat and sleeps 30 s in the handler.
HeartbeatIteracion(t) ==
    /\ latidos[t].pc = "cabeza"
    /\ thread_heartbeat_running
    /\ \E envio_ok \in BOOLEAN, en_horario \in BOOLEAN :
           LET envia == ToqueHeartbeat /\ envio_ok
               hizo == IF ~ToqueHeartbeat THEN "ninguno"
                       ELSE IF envio_ok THEN "enviado" ELSE "fallo"
           IN  /\ ultimo_heartbeat' = IF envia THEN reloj ELSE ultimo_heartbeat
               /\ obsH' = IF envia THEN ObsEnvioHeartbeat(obsH, en_horario)
                          ELSE obsH
               /\ latidos' = [ latidos EXCEPT ![t] =
                      [ pc |-> "dormido", despierta |-> reloj + EsperaHeartbeat,
                        hizo |-> hizo ] ]
    /\ UNCHANGED << thread_heartbeat, thread_heartbeat_running, reloj, pcM,
                    limite_join >>

\* time.sleep(30) returned.
HeartbeatDespierta(t) ==
    /\ latidos[t].pc = "dormido"
    /\ reloj >= latidos[t].despierta
    /\ latidos' = [ latidos EXCEPT ![t] =
                        [ pc |-> "cabeza", despierta |-> reloj, hizo |-> "ninguno" ] ]
    /\ UNCHANGED << thread_heartbeat, thread_heartbeat_running,
                    ultimo_heartbeat, obsH, reloj, pcM, limite_join >>

\* if self.thread_heartbeat is not None and self.thread_heartbeat.is_alive(): return
HeartbeatYaCorriendo ==
    thread_heartbeat # None /\ EstaVivo(latidos[thread_heartbeat[1]])

\* iniciar_heartbeat
IniciarHeartbeat ==
    /\ pcM = "libre"
    /\ IF HeartbeatYaCorriendo
       THEN /\ obsH' = [ obsH EXCEPT !.inicio_rechazado = TRUE ]
            /\ UNCHANGED << thread_heartbeat, thread_heartbeat_running,
                            ultimo_heartbeat, latidos >>
       ELSE /\ Len(latidos) < MaxHilos
            /\ ultimo_heartbeat' = reloj
            /\ thread_heartbeat_running' = TRUE
            /\ latidos' = Append(latidos, [ pc |-> "cabeza", despierta |-> reloj,
                                            hizo |-> "ninguno" ])
            /\ thread_heartbeat' = Some(Len(latidos) + 1)
            /\ obsH' = [ obsH EXCEPT !.tras_detener = None, !.detenciones = 0,
                                     !.inicio_rechazado = FALSE,
                                     !.inicio = reloj, !.primero = None ]
    /\ UNCHANGED << reloj, pcM, limite_join >>

\* detener_heartbeat up to the call of join(timeout=5); without a thread the
\* method returns at once.
DetenerHeartbeat ==
    /\ pcM = "libre"
    /\ IF thread_heartbeat = None
       THEN UNCHANGED << thread_heartbeat_running, pcM, limite_join >>
       ELSE /\ thread_heartbeat_running' = FALSE
            /\ pcM' = "join_heartbeat"
            /\ limite_join' = reloj + TimeoutJoin
    /\ UNCHANGED << thread_heartbeat, ultimo_heartbeat, latidos, obsH, reloj >>

JoinHeartbeatPuedeRetornar ==
    \/ ~EstaVivo(latidos[thread_heartbeat[1]])
    \/ reloj >= limite_join

\* join(timeout=5) returns: the thread ended, or the timeout expired.
RetornaDetenerHeartbeat ==
    /\ pcM = "join_heartbeat"
    /\ JoinHeartbeatPuedeRetornar
    /\ pcM' = "libre"
    /\ obsH' = [ obsH EXCEPT
           !.detenciones = IF @ < 2 THEN @ + 1 ELSE @,
           !.tras_detener =
               IF @ = None
               THEN Some(<< thread_heartbeat_running, thread_heartbeat >>)
               ELSE @ ]
    /\ UNCHANGED << thread_heartbeat, thread_heartbeat_running,
                    ultimo_heartbeat, latidos, reloj, limite_join >>

Min(S) == CHOOSE x \in S : \A y \in S : x <= y

\* The instants at which a blocked thread or a pending join wakes up.
Plazos ==
    { lectores[t].despierta : t \in { u \in Hilos : Bloqueado(lectores[u]) } }
        \cup { latidos[t].despierta :
                   t \in { u \in HilosHeartbeat : Bloqueado(latidos[u]) } }
        \cup (IF EnJoin /\ limite_join > reloj THEN { limite_join } ELSE {})

\* Time passes while every live thread is blocked, up to the next wake-up.
AvanzaReloj(limite) ==
    /\ \A t \in Hilos : EstaVivo(lectores[t]) => Bloqueado(lectores[t])
    /\ \A t \in HilosHeartbeat : EstaVivo(latidos[t]) => Bloqueado(latidos[t])
    /\ ~(pcM = "join" /\ JoinPuedeRetornar)
    /\ ~(pcM = "join_heartbeat" /\ JoinHeartbeatPuedeRetornar)
    /\ Plazos # {}
    /\ Min(Plazos) <= limite
    /\ reloj' = Min(Plazos)
    /\ UNCHANGED << cap, frame_actual, frame_lock, thread_lectura, thread_lectura_running,
                    errores_consecutivos, ultima_reconexion, lectores, pcM,
                    limite_join, obs >>

PasaTiempo == AvanzaReloj(MaxReloj)

PasaTiempoHeartbeat == AvanzaReloj(MaxRelojHeartbeat)

\* What the actions of one component leave alone.
FueraDeHeartbeatSalvoErrores ==
    /\ errores_consecutivos' = 0
    /\ UNCHANGED << varsMonitor, varsCiclo, varsAparte, varsCadencia, cap, frame_actual,
                    frame_lock, thread_lectura, thread_lectura_running,
                    ultima_reconexion, lectores, obs >>

FueraDeCamara ==
    UNCHANGED << varsMonitor, varsHeartbeat, varsCiclo, varsAparte, varsCadencia >>

FueraDeHeartbeat ==
    UNCHANGED << varsMonitor, varsCiclo, varsAparte, varsCadencia, cap, frame_actual,
                 frame_lock, thread_lectura,
                 thread_lectura_running, errores_consecutivos,
                 ultima_reconexion, lectores, obs >>

\* The two background threads share only the clock and the thread that
\* starts and stops them, so each one is explored with the other not started.
SinHeartbeat == latidos = << >>
SinLector == lectores = << >>

NextHilos ==
    \/ SinHeartbeat /\ (\E t \in Hilos : LectorTermina(t)) /\ FueraDeCamara
    \/ SinHeartbeat /\ (\E t \in Hilos : LectorFueraDeHorario(t)) /\ FueraDeCamara
    \/ SinHeartbeat /\ (\E t \in Hilos : LectorStreamEnMalEstado(t)) /\ FueraDeCamara
    \/ SinHeartbeat /\ (\E t \in Hilos : LectorEmpiezaLectura(t)) /\ FueraDeCamara
    \/ SinHeartbeat /\ (\E t \in Hilos : LectorLeeFrame(t)) /\ FueraDeCamara
    \/ SinHeartbeat /\ (\E t \in Hilos : LectorCopiaFrame(t)) /\ FueraDeCamara
    \/ SinHeartbeat /\ (\E t \in Hilos : LectorFalloLectura(t)) /\ FueraDeCamara
    \/ SinHeartbeat /\ (\E t \in Hilos : LectorExcepcionLectura(t)) /\ FueraDeCamara
    \/ SinHeartbeat /\ (\E t \in Hilos : LectorReconecta(t)) /\ FueraDeCamara
    \/ SinHeartbeat /\ (\E t \in Hilos : LectorDespierta(t)) /\ FueraDeCamara
    \/ SinHeartbeat /\ StreamSeDegrada /\ FueraDeCamara
    \/ SinHeartbeat /\ Inicializar /\ FueraDeCamara
    \/ SinHeartbeat /\ IniciarLectura /\ FueraDeCamara
    \/ SinHeartbeat /\ DetenerLectura /\ FueraDeCamara
    \/ SinHeartbeat /\ RetornaDetenerLectura /\ FueraDeCamara
    \/ SinHeartbeat /\ PasaTiempo /\ FueraDeCamara
    \/ SinLector /\ (\E t \in HilosHeartbeat : HeartbeatTermina(t)) /\ FueraDeHeartbeat
    \/ SinLector /\ (\E t \in HilosHeartbeat : HeartbeatIteracion(t)) /\ FueraDeHeartbeat
    \/ SinLector /\ (\E t \in HilosHeartbeat : HeartbeatDespierta(t)) /\ FueraDeHeartbeat
    \/ SinLector /\ IniciarHeartbeat /\ FueraDeHeartbeat
    \/ SinLector /\ DetenerHeartbeat /\ FueraDeHeartbeat
    \/ SinLector /\ RetornaDetenerHeartbeat /\ FueraDeHeartbeat
    \/ SinLector /\ PasaTiempoHeartbeat /\ FueraDeCamara

\* The reader thread and the thread that starts it, stops it and releases
\* the camera.
NextLiberar ==
    \/ (\E t \in Hilos : LectorTermina(t)) /\ FueraDeCamara
    \/ (\E t \in Hilos : LectorFueraDeHorario(t)) /\ FueraDeCamara
    \/ (\E t \in Hilos : LectorStreamEnMalEstado(t)) /\ FueraDeCamara
    \/ (\E t \in Hilos : LectorEmpiezaLectura(t)) /\ FueraDeCamara
    \/ (\E t \in Hilos : LectorLeeFrame(t)) /\ FueraDeCamara
    \/ (\E t \in Hilos : LectorCopiaFrame(t)) /\ FueraDeCamara
    \/ (\E t \in Hilos : LectorFalloLectura(t)) /\ FueraDeCamara
    \/ (\E t \in Hilos : LectorExcepcionLectura(t)) /\ FueraDeCamara
    \/ (\E t \in Hilos : LectorReconecta(t)) /\ FueraDeCamara
    \/ (\E t \in Hilos : LectorDespierta(t)) /\ FueraDeCamara
    \/ StreamSeDegrada /\ FueraDeCamara
    \/ Inicializar /\ FueraDeCamara
    \/ IniciarLectura /\ FueraDeCamara
    \/ DetenerLectura /\ FueraDeCamara
    \/ RetornaDetenerLectura /\ FueraDeCamara
    \/ LiberaCap /\ FueraDeCamara
    \/ PasaTiempo /\ FueraDeCamara

(***************************************************************************)
(* The reader loop on a stream that recovers                               *)
(***************************************************************************)

\* The stream can be opened, every read succeeds and the hours predicate is
\* true: so it is from RelojSano on.
Sano == reloj >= RelojSano

\* The blocking call thread t has just entered returns within the time that
\* is followed.
EnPlazo(t) == lectores'[t].despierta <= MaxRelojSano

PasaTiempoSano == AvanzaReloj(MaxRelojSano)

\* The steps of the reader thread: every outcome before RelojSano, the
\* outcomes of a healthy stream after it. The thread is not stopped and the
\* notification callbacks return.
PasoLectorSano ==
    \/ ~Sano /\ (\E t \in Hilos : LectorFueraDeHorario(t)) /\ FueraDeCamara
    \/ (\E t \in Hilos : LectorStreamEnMalEstado(t)) /\ FueraDeCamara
    \/ (\E t \in Hilos : LectorEmpiezaLectura(t) /\ EnPlazo(t)) /\ FueraDeCamara
    \/ (\E t \in Hilos : LectorLeeFrame(t)) /\ FueraDeCamara
    \/ (\E t \in Hilos : LectorCopiaFrame(t)) /\ FueraDeCamara
    \/ ~Sano /\ (\E t \in Hilos : LectorFalloLectura(t)) /\ FueraDeCamara
    \/ ~Sano /\ (\E t \in Hilos : LectorExcepcionLectura(t)
                                      /\ EstaVivo(lectores'[t])) /\ FueraDeCamara
    \/ (\E t \in Hilos : LectorReconecta(t)
                /\ (Sano => (cap' = "abierta"
                                \/ lectores'[t].pc = "espera_reconexion")))
           /\ FueraDeCamara
    \/ (\E t \in Hilos : LectorDespierta(t)) /\ FueraDeCamara

NextSano ==
    \/ Inicializar /\ FueraDeCamara
    \/ IniciarLectura /\ FueraDeCamara
    \/ PasoLectorSano
    \/ ~Sano /\ StreamSeDegrada /\ FueraDeCamara
    \/ PasaTiempoSano /\ FueraDeCamara

(***************************************************************************)
(* Config.validar and the operating hours                                  *)
(***************************************************************************)

\* datetime.now().hour
HorasDelDia == 0..UltimaHora

\* The Config of the dataclass defaults, with the required fields given.
ConfigPorDefecto ==
    [ camera_source |-> TRUE, api_base_url |-> TRUE, model_path |-> TRUE,
      azure_completa |-> TRUE, hora_inicio |-> hora_inicio,
      hora_fin |-> hora_fin ]

\* The Config objects handed to validar: each string field empty or not,
\* the Azure pair complete or not, and the two hours from just below to
\* just above the hours of the day.
Configs ==
    [ camera_source : BOOLEAN, api_base_url : BOOLEAN, model_path : BOOLEAN,
      azure_completa : BOOLEAN,
      hora_inicio : (0 - MargenHoras)..(UltimaHora + MargenHoras),
      hora_fin : (0 - MargenHoras)..(UltimaHora + MargenHoras) ]

\* Config.validar; existe is what os.path.exists(self.model_path) returns.
\* An incomplete Azure configuration is only warned about.
validar(c, existe) ==
    IF ~c.camera_source THEN FALSE
    ELSE IF ~c.api_base_url THEN FALSE
    ELSE IF ~c.model_path THEN FALSE
    ELSE IF ~existe THEN FALSE
    ELSE IF c.hora_inicio < 0 \/ c.hora_inicio > UltimaHora THEN FALSE
    ELSE IF c.hora_fin < 0 \/ c.hora_fin > UltimaHora THEN FALSE
    ELSE TRUE

\* return self.config.hora_inicio <= hora_actual < self.config.hora_fin
esta_en_horario_operacion(c, hora_actual) ==
    c.hora_inicio <= hora_actual /\ hora_actual < c.hora_fin

ObsConfigInicial == [ validada |-> None, hora |-> None, en_horario |-> FALSE ]

\* The running system is given the default hours.
InitConfig ==
    /\ config = ConfigPorDefecto
    /\ obsConfig = ObsConfigInicial

\* What a step on the Config leaves alone.
FueraDeConfig ==
    UNCHANGED << varsMonitor, varsCamara, varsHeartbeat, varsCiclo,
                 varsCadencia, config, cliente >>

\* self.config.validar() is called on the Config.
ValidarConfig ==
    /\ obsConfig.validada = None
    /\ \E existe \in BOOLEAN :
           obsConfig' = [ obsConfig EXCEPT
                              !.validada = Some(validar(config, existe)) ]
    /\ FueraDeConfig

\* esta_en_horario_operacion is evaluated at some hour of the day, on a
\* Config that validar has accepted.
ConsultaHorario ==
    /\ obsConfig.validada = Some(TRUE)
    /\ \E hora_actual \in HorasDelDia :
           obsConfig' = [ obsConfig EXCEPT
                              !.hora = Some(hora_actual),
                              !.en_horario =
                                  esta_en_horario_operacion(config, hora_actual) ]
    /\ FueraDeConfig

NextConfig ==
    \/ ValidarConfig
    \/ ConsultaHorario

(***************************************************************************)
(* ThermalMonitor.iniciar, ejecutar_ciclo and the evidence pipeline        *)
(***************************************************************************)
\* What the current iteration of ejecutar_ciclo has done so far.
Iteracion(en_horario, hizo, frame_pedido, detector_invocado) ==
    [ en_horario |-> en_horario, hizo |-> hizo, frame_pedido |-> frame_pedido,
      detector_invocado |-> detector_invocado, causa_fin |-> "ninguna" ]

\* ThermalMonitor.__init__: self.running = False
InitCiclo ==
    /\ running = FALSE
    /\ pcC = "validar"
    /\ pasos = << >>
    /\ tareas = << >>
    /\ obsC = Iteracion(TRUE, "nada", FALSE, FALSE)

\* ejecutar_ciclo has not been entered: its local ultimo_capture has no value
\* yet (0 stands for it), no iteration has been timed.
InitCadencia ==
    /\ ultimo_capture = 0
    /\ obsT = [ hizo |-> "nada", transcurrido |-> 0,
                estado |-> "sin_deteccion", base |-> 0 ]

\* if not <step>: logger.error(...); return
TrasPasoSinComprobar(ok, siguiente) == siguiente
TrasPaso(ok, siguiente) == IF ok THEN siguiente ELSE "retornado"

Paso(nombre, ok) == [ paso |-> nombre, ok |-> ok ]

\* What a start-up step of iniciar leaves alone besides the camera.
FueraDeArranque ==
    UNCHANGED << varsMonitor, varsHeartbeat, running, tareas, obsC,
                 varsCadencia, varsAparte >>

\* if not self.config.validar(): return
IniciarValida ==
    /\ pcC = "validar"
    /\ \E existe \in BOOLEAN :
           LET ok == validar(config, existe)
           IN  /\ pasos' = Append(pasos, Paso("validar", ok))
               /\ pcC' = TrasPaso(ok, "camara")
    /\ UNCHANGED varsCamara
    /\ FueraDeArranque

\* if not self.camera.inicializar(): return
IniciarCamara ==
    /\ pcC = "camara"
    /\ Inicializar
    /\ pasos' = Append(pasos, Paso("camara", cap' = "abierta"))
    /\ pcC' = TrasPaso(cap' = "abierta", "modelo")
    /\ FueraDeArranque

\* if not self.detector.cargar_modelo(): return
IniciarModelo ==
    /\ pcC = "modelo"
    /\ \E ok \in BOOLEAN :
           /\ pasos' = Append(pasos, Paso("modelo", ok))
           /\ pcC' = TrasPaso(ok, "autenticar")
    /\ UNCHANGED varsCamara
    /\ FueraDeArranque

\* if not self.api.autenticar(): return
IniciarAutentica ==
    /\ pcC = "autenticar"
    /\ \E ok \in BOOLEAN :
           /\ pasos' = Append(pasos, Paso("autenticar", ok))
           /\ pcC' = TrasPaso(ok, "arranque")
    /\ UNCHANGED varsCamara
    /\ FueraDeArranque

\* self.camera.iniciar_lectura_continua(...); self.iniciar_heartbeat();
\* time.sleep(2); self.running = True; the thread enters ejecutar_ciclo,
\* which sets ultimo_capture = time.time().
IniciarArranca ==
    /\ pcC = "arranque"
    /\ IniciarLectura
    /\ IniciarHeartbeat
    /\ running' = TRUE
    /\ pcC' = "cabeza"
    /\ ultimo_capture' = reloj
    /\ obsT' = [ obsT EXCEPT !.base = reloj ]
    /\ UNCHANGED << varsMonitor, pasos, varsAparte, tareas, obsC >>

\* Positions of the thread inside ejecutar_ciclo.
EnCiclo == { "cabeza", "dormido_fuera", "espera_frame", "subiendo", "backoff" }

\* What one step of the main thread leaves alone.
FueraDeCiclo == UNCHANGED << varsCamara, varsHeartbeat, pasos, varsAparte, varsCadencia >>

\* if not self.esta_en_horario_operacion(): ... time.sleep(30); continue
SaltaMuestreoNunca(en_horario) == FALSE
SaltaMuestreo(en_horario) == ~en_horario

\* Outside the operating hours: log at most every 300 s, time.sleep(30).
CicloFueraDeHorario ==
    /\ pcC = "cabeza"
    /\ running
    /\ \E en_horario \in BOOLEAN :
           /\ SaltaMuestreo(en_horario)
           /\ obsC' = Iteracion(en_horario, "espera_horario", FALSE, FALSE)
    /\ pcC' = "dormido_fuera"
    /\ UNCHANGED << varsMonitor, running, tareas >>
    /\ FueraDeCiclo

\* tiempo_actual - ultimo_capture < tiempo_espera: only time.sleep(0.1).
CicloTick ==
    /\ pcC = "cabeza"
    /\ running
    /\ \E en_horario \in BOOLEAN :
           /\ ~SaltaMuestreo(en_horario)
           /\ obsC' = Iteracion(en_horario, "tick", FALSE, FALSE)
    /\ UNCHANGED << varsMonitor, running, pcC, tareas >>
    /\ FueraDeCiclo

\* frame = self.camera.obtener_frame() is None: warn and time.sleep(1).
CicloSinFrame ==
    /\ pcC = "cabeza"
    /\ running
    /\ frame_lock = "libre"
    /\ obtener_frame = None
    /\ \E en_horario \in BOOLEAN :
           /\ ~SaltaMuestreo(en_horario)
           /\ obsC' = Iteracion(en_horario, "sin_frame", TRUE, FALSE)
    /\ pcC' = "espera_frame"
    /\ UNCHANGED << varsMonitor, running, tareas >>
    /\ FueraDeCiclo

\* A sample for which detector.detectar returns the empty list (also when
\* the model is not loaded or the inference raised inside detectar).
CicloMuestraSinDeteccion ==
    /\ pcC = "cabeza"
    /\ running
    /\ frame_lock = "libre"
    /\ obtener_frame # None
    /\ Len(historia) < MaxMuestrasCiclo
    /\ \E en_horario \in BOOLEAN :
           /\ ~SaltaMuestreo(en_horario)
           /\ obsC' = Iteracion(en_horario, "muestra", TRUE, TRUE)
    /\ historia' = Append(historia, FALSE)
    /\ ProcesarSinDeteccion
    /\ UNCHANGED << running, pcC, tareas >>
    /\ FueraDeCiclo

\* except Exception as e: log, self.api.enviar_log(...), time.sleep(5); the
\* loop is not left.
TrasExcepcionTermina == "fin_ciclo"
TrasExcepcion == "backoff"

\* An exception raised in the body of the iteration before
\* procesar_detecciones has changed anything: except Exception logs it,
\* sends the log and sleeps 5 s.
CicloExcepcion ==
    /\ pcC = "cabeza"
    /\ running
    /\ \E en_horario \in BOOLEAN, con_frame \in BOOLEAN :
           /\ ~SaltaMuestreo(en_horario)
           /\ obsC' = Iteracion(en_horario, "excepcion", con_frame, con_frame)
    /\ pcC' = TrasExcepcion
    /\ UNCHANGED << varsMonitor, running, tareas >>
    /\ FueraDeCiclo

\* time.sleep returned: the loop goes back to its head.
CicloDespierta ==
    /\ pcC \in { "dormido_fuera", "espera_frame", "backoff" }
    /\ pcC' = "cabeza"
    /\ UNCHANGED << varsMonitor, running, tareas, obsC >>
    /\ FueraDeCiclo

\* while self.running: the flag is false, ejecutar_ciclo returns.
CicloTermina ==
    /\ pcC = "cabeza"
    /\ ~running
    /\ pcC' = "fin_ciclo"
    /\ obsC' = [ obsC EXCEPT !.causa_fin = "running_falso" ]
    /\ UNCHANGED << varsMonitor, running, tareas >>
    /\ FueraDeCiclo

\* The evidence task of one sample, after guardar_frame_temporal: without a
\* temp file procesar_imagen_con_detecciones returns at once. evento_id is
\* the argument self.id_evento_activo of the call, as procesar_detecciones
\* has just left it; enviado is the id in the URL of the POST, once made.
NuevaTarea(guardado) ==
    [ paso |-> IF guardado THEN "subir" ELSE "fin",
      hechos |-> << Paso("persistir", guardado) >>,
      archivo |-> guardado,
      evento_id |-> id_evento_activo',
      enviado |-> None ]

\* A sample with at least one detection: procesar_detecciones and, if an
\* event id is set, procesar_imagen_con_detecciones up to the call of
\* azure.subir_imagen, which the sampling thread makes itself.
CicloMuestraConDeteccion ==
    /\ pcC = "cabeza"
    /\ running
    /\ frame_lock = "libre"
    /\ obtener_frame # None
    /\ Len(historia) < MaxMuestrasCiclo
    /\ Len(tareas) < MaxTareas
    /\ \E en_horario \in BOOLEAN :
           /\ ~SaltaMuestreo(en_horario)
           /\ obsC' = Iteracion(en_horario, "muestra", TRUE, TRUE)
    /\ historia' = Append(historia, TRUE)
    /\ \E respuesta \in RespuestasCrear, guardado \in BOOLEAN :
           /\ ProcesarConDeteccion(respuesta)
           /\ IF ultima'.despachos = 1
              THEN /\ tareas' = Append(tareas, NuevaTarea(guardado))
                   /\ pcC' = IF guardado THEN "subiendo" ELSE "cabeza"
              ELSE UNCHANGED << tareas, pcC >>
    /\ UNCHANGED running
    /\ FueraDeCiclo

\* if not azure_url: ...; return
SigueTrasSubidaSiempre(subida_ok) == TRUE
SigueTrasSubida(subida_ok) == subida_ok

\* azure.subir_imagen returns to the sampling thread: a URL, or None on any
\* failure. With a URL api.enviar_imagen_con_detecciones starts the thread
\* that submits the evidence; if the thread cannot be started the exception
\* reaches the except clause of ejecutar_ciclo.
SubidaTermina ==
    /\ pcC = "subiendo"
    /\ \E subida_ok \in BOOLEAN, hilo_ok \in BOOLEAN :
           LET i == Len(tareas)
               sigue == SigueTrasSubida(subida_ok)
           IN  /\ tareas' = [ tareas EXCEPT
                      ![i].hechos = Append(@, Paso("subir", subida_ok)),
                      ![i].paso = IF sigue /\ hilo_ok THEN "enviar" ELSE "fin" ]
               /\ pcC' = IF sigue /\ ~hilo_ok THEN TrasExcepcion ELSE "cabeza"
               /\ obsC' = IF sigue /\ ~hilo_ok
                          THEN [ obsC EXCEPT !.hizo = "excepcion" ]
                          ELSE obsC
    /\ UNCHANGED << varsMonitor, running >>
    /\ FueraDeCiclo

\* What the POST of the evidence can meet: 201, another status, an exception.
RespuestasEnvio == { "201", "otro", "excepcion" }

\* What os.remove can do in eliminar_archivo_temporal.
ResultadosBorrado == { "borrado", "excepcion" }

\* if response.status_code == 201: callback_eliminar_archivo()
BorraTrasEnvioSiempre(r) == TRUE
BorraTrasEnvio(r) == r = "201"

\* thread.start(): from then on the thread _enviar of a task runs whenever the
\* scheduler picks it, whatever the threads of the other tasks are doing.
EnvioListoEnOrden(i) ==
    /\ tareas[i].paso = "enviar"
    /\ \A k \in 1..(i - 1) : tareas[k].paso # "enviar"

EnvioListo(i) == tareas[i].paso = "enviar"

\* f"{self.api_base_url}/eventos/{evento_id}/imagenes": evento_id is the
\* parameter captured by the closure _enviar.
IdEnviadoActual(i) == id_evento_activo
IdEnviado(i) == tareas[i].evento_id

\* The thread _enviar of api.enviar_imagen_con_detecciones runs: the POST
\* and, after a 201, the deletion of the temp file.
EnvioTermina(i) ==
    /\ EnvioListo(i)
    /\ \E r \in RespuestasEnvio, b \in ResultadosBorrado :
           LET borra == BorraTrasEnvio(r)
               h1 == Append(tareas[i].hechos, Paso("enviar", r = "201"))
               h2 == IF borra THEN Append(h1, Paso("borrar", b = "borrado"))
                     ELSE h1
           IN  tareas' = [ tareas EXCEPT ![i] =
                   [ paso |-> "fin", hechos |-> h2,
                     archivo |-> IF borra /\ b = "borrado" THEN FALSE
                                 ELSE tareas[i].archivo,
                     evento_id |-> tareas[i].evento_id,
                     enviado |-> IdEnviado(i) ] ]
    /\ UNCHANGED << varsMonitor, running, pcC, obsC >>
    /\ FueraDeCiclo

\* except KeyboardInterrupt: break (raised while the thread is inside
\* ejecutar_ciclo; an upload under way is abandoned).
CicloInterrumpido ==
    /\ pcC \in EnCiclo
    /\ pcC' = "fin_ciclo"
    /\ obsC' = [ obsC EXCEPT !.causa_fin = "interrupcion" ]
    /\ tareas' = IF pcC = "subiendo"
                 THEN [ tareas EXCEPT
                          ![Len(tareas)].hechos = Append(@, Paso("subir", FALSE)),
                          ![Len(tareas)].paso = "fin" ]
                 ELSE tareas
    /\ UNCHANGED << varsMonitor, running >>
    /\ FueraDeCiclo

\* detener(): running = False, detener_heartbeat(), camera.liberar(); called
\* by the finally clause of iniciar, or by another thread while the loop runs
\* (the joins return when the thread ends or after their timeout).
Detener ==
    /\ pcC \in EnCiclo \cup { "fin_ciclo" }
    /\ running' = FALSE
    /\ thread_heartbeat_running' = FALSE
    /\ thread_lectura_running' = FALSE
    /\ cap' = "None"
    /\ pcC' = IF pcC = "fin_ciclo" THEN "detenido" ELSE pcC
    /\ UNCHANGED << varsMonitor, varsCadencia, pasos, varsAparte, tareas, obsC, reloj,
                    frame_actual, frame_lock,
                    thread_lectura, errores_consecutivos, ultima_reconexion,
                    lectores, pcM, limite_join, obs, thread_heartbeat,
                    ultimo_heartbeat, latidos, obsH >>

\* The main thread from iniciar to detener, the threads that submit the
\* evidence, and the reader thread as far as it fills frame_actual.
NextCiclo ==
    \/ IniciarValida
    \/ IniciarCamara
    \/ IniciarModelo
    \/ IniciarAutentica
    \/ IniciarArranca
    \/ CicloFueraDeHorario
    \/ CicloTick
    \/ CicloSinFrame
    \/ CicloMuestraSinDeteccion
    \/ CicloMuestraConDeteccion
    \/ CicloExcepcion
    \/ CicloDespierta
    \/ CicloTermina
    \/ SubidaTermina
    \/ \E i \in 1..Len(tareas) : EnvioTermina(i)
    \/ CicloInterrumpido
    \/ Detener
    \/ (\E t \in Hilos : LectorEmpiezaLectura(t)) /\ FueraDeCamara
    \/ (\E t \in Hilos : LectorLeeFrame(t)) /\ FueraDeCamara
    \/ (\E t \in Hilos : LectorCopiaFrame(t)) /\ FueraDeCamara
    \/ (\E t \in Hilos : LectorTermina(t)) /\ FueraDeCamara


(***************************************************************************)
(* The timing of the samples of ejecutar_ciclo                             *)
(***************************************************************************)

\* obtener_tiempo_espera
obtener_tiempo_espera_fijo == tiempo_foto_sin_deteccion
obtener_tiempo_espera ==
    IF estado_actual = "sin_deteccion" THEN tiempo_foto_sin_deteccion
    ELSE tiempo_foto_con_deteccion

\* if tiempo_actual - ultimo_capture >= tiempo_espera
ToqueMuestreo == reloj - ultimo_capture >= obtener_tiempo_espera

\* Seconds an iteration takes: the ticks of time.sleep(0.1) up to the next
\* second of the clock, time.sleep(1) without a frame, time.sleep(5) in the
\* except clause, and what a sample takes (nothing measurable, or longer
\* than the short interval: detection and the upload of the evidence).
DuracionTick == 1
EsperaSinFrame == 1
EsperaTrasExcepcionCiclo == 5
DuracionesMuestra == { 0, 3 }

\* Observation of one iteration: what it did, the state it computed the
\* interval from, and the time since the last sample that was performed
\* (since the start of the loop before the first one).
ObsTiempo(hizo) ==
    [ hizo |-> hizo, transcurrido |-> reloj - obsT.base,
      estado |-> estado_actual,
      base |-> IF hizo = "muestra" THEN reloj ELSE obsT.base ]

\* What an iteration of the timed loop leaves alone besides the debounce
\* state, the clock and ultimo_capture.
FueraDeCadencia ==
    UNCHANGED << varsHeartbeat, varsCiclo, varsAparte, cap, frame_actual, frame_lock,
                 thread_lectura, thread_lectura_running, errores_consecutivos,
                 ultima_reconexion, lectores, pcM, limite_join, obs >>

\* The interval has not elapsed: only time.sleep(0.1).
CadenciaTick ==
    /\ pcC = "cabeza"
    /\ running
    /\ ~ToqueMuestreo
    /\ reloj + DuracionTick <= MaxRelojCadencia
    /\ reloj' = reloj + DuracionTick
    /\ obsT' = ObsTiempo("tick")
    /\ UNCHANGED << varsMonitor, ultimo_capture >>
    /\ FueraDeCadencia

\* The interval has elapsed and obtener_frame returns None: time.sleep(1),
\* ultimo_capture is not updated.
CadenciaSinFrame ==
    /\ pcC = "cabeza"
    /\ running
    /\ ToqueMuestreo
    /\ frame_lock = "libre"
    /\ obtener_frame = None
    /\ reloj + EsperaSinFrame <= MaxRelojCadencia
    /\ reloj' = reloj + EsperaSinFrame
    /\ obsT' = ObsTiempo("sin_frame")
    /\ UNCHANGED << varsMonitor, ultimo_capture >>
    /\ FueraDeCadencia

\* The interval has elapsed and the sample has no detections:
\* procesar_detecciones, then ultimo_capture = tiempo_actual.
CadenciaMuestraSinDeteccion ==
    /\ pcC = "cabeza"
    /\ running
    /\ ToqueMuestreo
    /\ frame_lock = "libre"
    /\ obtener_frame # None
    /\ Len(historia) < MaxMuestrasCadencia
    /\ historia' = Append(historia, FALSE)
    /\ ProcesarSinDeteccion
    /\ ultimo_capture' = reloj
    /\ \E d \in DuracionesMuestra :
           /\ reloj + d <= MaxRelojCadencia
           /\ reloj' = reloj + d
    /\ obsT' = ObsTiempo("muestra")
    /\ FueraDeCadencia

\* The interval has elapsed and the sample has detections:
\* procesar_detecciones, then ultimo_capture = tiempo_actual; if the
\* dispatch of the evidence raises, the except clause sleeps 5 s and
\* ultimo_capture keeps its value.
CadenciaMuestraConDeteccion ==
    /\ pcC = "cabeza"
    /\ running
    /\ ToqueMuestreo
    /\ frame_lock = "libre"
    /\ obtener_frame # None
    /\ Len(historia) < MaxMuestrasCadencia
    /\ historia' = Append(historia, TRUE)
    /\ \E respuesta \in RespuestasCrear, hilo_ok \in BOOLEAN :
           /\ ProcesarConDeteccion(respuesta)
           /\ IF ultima'.despachos = 1 /\ ~hilo_ok
              THEN /\ reloj + EsperaTrasExcepcionCiclo <= MaxRelojCadencia
                   /\ reloj' = reloj + EsperaTrasExcepcionCiclo
                   /\ UNCHANGED ultimo_capture
              ELSE /\ ultimo_capture' = reloj
                   /\ \E d \in DuracionesMuestra :
                          /\ reloj + d <= MaxRelojCadencia
                          /\ reloj' = reloj + d
    /\ obsT' = ObsTiempo("muestra")
    /\ FueraDeCadencia

\* The main thread from iniciar on with the clock running, and the reader
\* thread as far as it fills frame_actual.
NextCadencia ==
    \/ IniciarValida
    \/ IniciarCamara
    \/ IniciarModelo
    \/ IniciarAutentica
    \/ IniciarArranca
    \/ CadenciaTick
    \/ CadenciaSinFrame
    \/ CadenciaMuestraSinDeteccion
    \/ CadenciaMuestraConDeteccion
    \/ (\E t \in Hilos : LectorEmpiezaLectura(t)) /\ FueraDeCamara
    \/ (\E t \in Hilos : LectorLeeFrame(t)) /\ FueraDeCamara
    \/ (\E t \in Hilos : LectorCopiaFrame(t)) /\ FueraDeCamara

(***************************************************************************)
(* The evidence of an event, from its dispatch to the close of the event   *)
(***************************************************************************)

\* One sample of ejecutar_ciclo, in operating hours and with a frame, whose
\* list of detections is empty; at most n samples are taken.
MuestraSinDeteccionHasta(n) ==
    /\ pcC = "cabeza"
    /\ running
    /\ frame_lock = "libre"
    /\ obtener_frame # None
    /\ Len(historia) < n
    /\ \E en_horario \in BOOLEAN :
           /\ ~SaltaMuestreo(en_horario)
           /\ obsC' = Iteracion(en_horario, "muestra", TRUE, TRUE)
    /\ historia' = Append(historia, FALSE)
    /\ ProcesarSinDeteccion
    /\ UNCHANGED << running, pcC, tareas >>
    /\ FueraDeCiclo

EvidenciaMuestraSinDeteccion == MuestraSinDeteccionHasta(MaxMuestrasEvidencia)

\* One sample of ejecutar_ciclo, in operating hours and with a frame, with
\* at least one detection: procesar_detecciones and, with an event id set,
\* procesar_imagen_con_detecciones up to the call of azure.subir_imagen; at
\* most n samples are taken.
MuestraConDeteccionHasta(n) ==
    /\ pcC = "cabeza"
    /\ running
    /\ frame_lock = "libre"
    /\ obtener_frame # None
    /\ Len(historia) < n
    /\ Len(tareas) < MaxTareas
    /\ \E en_horario \in BOOLEAN :
           /\ ~SaltaMuestreo(en_horario)
           /\ obsC' = Iteracion(en_horario, "muestra", TRUE, TRUE)
    /\ historia' = Append(historia, TRUE)
    /\ \E respuesta \in RespuestasCrear, guardado \in BOOLEAN :
           /\ ProcesarConDeteccion(respuesta)
           /\ IF ultima'.despachos = 1
              THEN /\ tareas' = Append(tareas, NuevaTarea(guardado))
                   /\ pcC' = IF guardado THEN "subiendo" ELSE "cabeza"
              ELSE UNCHANGED << tareas, pcC >>
    /\ UNCHANGED running
    /\ FueraDeCiclo

EvidenciaMuestraConDeteccion == MuestraConDeteccionHasta(MaxMuestrasEvidencia)

\* iniciar, the reader thread up to its first frame (the frames after it
\* replace an equal value), the samples of the main loop and the threads
\* that submit the evidence.
NextEvidencia ==
    \/ IniciarValida
    \/ IniciarCamara
    \/ IniciarModelo
    \/ IniciarAutentica
    \/ IniciarArranca
    \/ EvidenciaMuestraSinDeteccion
    \/ EvidenciaMuestraConDeteccion
    \/ SubidaTermina
    \/ CicloDespierta
    \/ \E i \in 1..Len(tareas) : EnvioTermina(i)
    \/ (\E t \in Hilos : LectorEmpiezaLectura(t)) /\ frame_actual = None
                                                  /\ FueraDeCamara
    \/ (\E t \in Hilos : LectorLeeFrame(t)) /\ FueraDeCamara
    \/ (\E t \in Hilos : LectorCopiaFrame(t)) /\ FueraDeCamara

(***************************************************************************)
(* The debounce state across the operating hours                           *)
(***************************************************************************)

HorarioMuestraSinDeteccion == MuestraSinDeteccionHasta(MaxMuestrasHorario)

HorarioMuestraConDeteccion == MuestraConDeteccionHasta(MaxMuestrasHorario)

\* iniciar, the reader thread up to its first frame, and the main loop in
\* and out of the operating hours, with the threads that submit the
\* evidence.
NextHorario ==
    \/ IniciarValida
    \/ IniciarCamara
    \/ IniciarModelo
    \/ IniciarAutentica
    \/ IniciarArranca
    \/ CicloFueraDeHorario
    \/ CicloDespierta
    \/ HorarioMuestraSinDeteccion
    \/ HorarioMuestraConDeteccion
    \/ SubidaTermina
    \/ \E i \in 1..Len(tareas) : EnvioTermina(i)
    \/ (\E t \in Hilos : LectorEmpiezaLectura(t)) /\ frame_actual = None
                                                  /\ FueraDeCamara
    \/ (\E t \in Hilos : LectorLeeFrame(t)) /\ FueraDeCamara
    \/ (\E t \in Hilos : LectorCopiaFrame(t)) /\ FueraDeCamara

(***************************************************************************)
(* Stopping: the three loops once their flags are cleared                  *)
(***************************************************************************)

\* A sleep or a read that a thread starts while its flag is set returns
\* within the time explored.
RetornaEnPlazo(t) ==
    thread_lectura_running => lectores'[t].despierta <= RelojParada
LatidoEnPlazo(t) == latidos'[t].despierta <= MaxRelojHeartbeat

\* iniciar has not been called: the reader and the heartbeat thread are
\* driven through the methods of their owners.
SinArranque == pcC = "validar" /\ pasos = << >>

\* Time passes while the thread under study is blocked.
PasaTiempoLector ==
    SinArranque /\ SinHeartbeat /\ AvanzaReloj(MaxRelojParada) /\ FueraDeCamara

PasaTiempoLatido ==
    SinArranque /\ SinLector /\ PasaTiempoHeartbeat /\ FueraDeCamara

\* One step of a reader thread: started by iniciar_lectura_continua alone
\* it runs the whole of _loop_lectura_continua; under iniciar it runs as far
\* as it fills frame_actual, with reads that return at once.
PasoLectorParada ==
    \/ (\E t \in Hilos : LectorTermina(t)) /\ FueraDeCamara
    \/ SinArranque /\ (\E t \in Hilos : LectorFueraDeHorario(t) /\ RetornaEnPlazo(t))
                   /\ FueraDeCamara
    \/ SinArranque /\ (\E t \in Hilos : LectorStreamEnMalEstado(t)
                                            /\ RetornaEnPlazo(t))
                   /\ FueraDeCamara
    \/ (\E t \in Hilos : /\ LectorEmpiezaLectura(t)
                         /\ IF SinArranque THEN RetornaEnPlazo(t)
                            ELSE lectores'[t].despierta <= reloj)
           /\ FueraDeCamara
    \/ (\E t \in Hilos : LectorLeeFrame(t)) /\ FueraDeCamara
    \/ (\E t \in Hilos : LectorCopiaFrame(t)) /\ FueraDeCamara
    \/ SinArranque /\ (\E t \in Hilos : LectorFalloLectura(t) /\ RetornaEnPlazo(t))
                   /\ FueraDeCamara
    \/ SinArranque /\ (\E t \in Hilos : LectorExcepcionLectura(t)
                                            /\ RetornaEnPlazo(t))
                   /\ FueraDeCamara
    \/ SinArranque /\ (\E t \in Hilos : LectorReconecta(t) /\ RetornaEnPlazo(t))
                   /\ FueraDeCamara
    \/ SinArranque /\ (\E t \in Hilos : LectorDespierta(t)) /\ FueraDeCamara

\* One step of a heartbeat thread: started by iniciar_heartbeat alone it
\* runs the whole of _heartbeat_loop; under iniciar it is followed from the
\* head of its loop to its end.
PasoHeartbeatParada ==
    \/ (\E t \in HilosHeartbeat : HeartbeatTermina(t)) /\ FueraDeHeartbeat
    \/ SinArranque /\ (\E t \in HilosHeartbeat : HeartbeatIteracion(t)
                                                     /\ LatidoEnPlazo(t))
                   /\ FueraDeHeartbeat
    \/ SinArranque /\ (\E t \in HilosHeartbeat : HeartbeatDespierta(t))
                   /\ FueraDeHeartbeat

\* What the main thread does by itself once running is false: the call
\* under way returns, the loop test fails, the finally clause of iniciar
\* calls detener.
PasoCicloParada ==
    \/ CicloDespierta
    \/ SubidaTermina
    \/ CicloTermina
    \/ Detener /\ pcC = "fin_ciclo"

\* join(timeout=5) of detener_lectura or of detener_heartbeat returns.
RetornaJoinParada ==
    \/ RetornaDetenerLectura /\ FueraDeCamara
    \/ RetornaDetenerHeartbeat /\ FueraDeHeartbeat

ParadaMuestraSinDeteccion == MuestraSinDeteccionHasta(MaxMuestrasParada)

ParadaMuestraConDeteccion == MuestraConDeteccionHasta(MaxMuestrasParada)

\* Either a reader thread with its start and stop operations, or a
\* heartbeat thread with its start and stop operations, or iniciar with the
\* main loop up to detener.
NextParada ==
    \/ SinArranque /\ SinHeartbeat /\ Inicializar /\ FueraDeCamara
    \/ SinArranque /\ SinHeartbeat /\ SinLector /\ IniciarLectura /\ FueraDeCamara
    \/ SinArranque /\ SinHeartbeat /\ DetenerLectura /\ FueraDeCamara
    \/ SinArranque /\ SinHeartbeat /\ StreamSeDegrada /\ FueraDeCamara
    \/ PasaTiempoLector
    \/ SinArranque /\ SinLector /\ SinHeartbeat /\ IniciarHeartbeat
                   /\ FueraDeHeartbeat
    \/ SinArranque /\ SinLector /\ DetenerHeartbeat /\ FueraDeHeartbeat
    \/ PasaTiempoLatido
    \/ RetornaJoinParada
    \/ PasoLectorParada
    \/ PasoHeartbeatParada
    \/ SinLector /\ SinHeartbeat /\ IniciarValida
    \/ IniciarCamara
    \/ IniciarModelo
    \/ IniciarAutentica
    \/ IniciarArranca
    \/ CicloFueraDeHorario
    \/ CicloTick
    \/ CicloSinFrame
    \/ ParadaMuestraSinDeteccion
    \/ ParadaMuestraConDeteccion
    \/ CicloExcepcion
    \/ PasoCicloParada
    \/ CicloInterrumpido
    \/ Detener

(***************************************************************************)
(* The frame slot: obtener_frame and the detector, statement by statement  *)
(***************************************************************************)

\* frame = self.camera.obtener_frame(): `with self.frame_lock:` is entered
\* when the lock is free.
CicloPideFrame ==
    /\ pcC = "cabeza"
    /\ running
    /\ Len(historia) < MaxMuestrasFrame
    /\ frame_lock = "libre"
    /\ frame_lock' = "ciclo"
    /\ pcC' = "en_lock"
    /\ UNCHANGED << varsMonitor, running, pasos, varsAparte, tareas, obsC, varsCadencia,
                    varsHeartbeat, reloj, cap, frame_actual, thread_lectura,
                    thread_lectura_running, errores_consecutivos,
                    ultima_reconexion, lectores, pcM, limite_join, obs >>

\* The lock when obtener_frame returns: the `with` block is left.
LockTrasObtenerRetenido == "ciclo"
LockTrasObtener == "libre"

\* obtener_frame returns the copy of frame_actual, or None: the lock is
\* released; without a frame the loop warns and sleeps 1 s, with a frame it
\* calls detector.detectar(frame).
CicloRecibeFrame ==
    /\ pcC = "en_lock"
    /\ frame_lock' = LockTrasObtener
    /\ pcC' = IF obtener_frame = None THEN "espera_frame" ELSE "detectando"
    /\ UNCHANGED << varsMonitor, running, pasos, varsAparte, tareas, obsC, varsCadencia,
                    varsHeartbeat, reloj, cap, frame_actual, thread_lectura,
                    thread_lectura_running, errores_consecutivos,
                    ultima_reconexion, lectores, pcM, limite_join, obs >>

\* detector.detectar(frame) returns its list and procesar_detecciones runs,
\* with detections and an event id up to the call of azure.subir_imagen.
CicloDetecta ==
    /\ pcC = "detectando"
    /\ \/ /\ historia' = Append(historia, FALSE)
          /\ ProcesarSinDeteccion
          /\ pcC' = "cabeza"
          /\ UNCHANGED tareas
       \/ /\ historia' = Append(historia, TRUE)
          /\ \E respuesta \in RespuestasCrear, guardado \in BOOLEAN :
                 /\ ProcesarConDeteccion(respuesta)
                 /\ IF ultima'.despachos = 1
                    THEN /\ tareas' = Append(tareas, NuevaTarea(guardado))
                         /\ pcC' = IF guardado THEN "subiendo" ELSE "cabeza"
                    ELSE /\ pcC' = "cabeza"
                         /\ UNCHANGED tareas
    /\ UNCHANGED << running, obsC >>
    /\ FueraDeCiclo

\* The reader thread with its sleeps and reconnections, the heartbeat
\* thread, the threads that submit the evidence, and the main thread from
\* iniciar on, fetching the frame and running the detector in separate
\* steps.
NextFrame ==
    \/ IniciarValida
    \/ IniciarCamara
    \/ IniciarModelo
    \/ IniciarAutentica
    \/ IniciarArranca
    \/ CicloPideFrame
    \/ CicloRecibeFrame
    \/ CicloDetecta
    \/ CicloDespierta
    \/ SubidaTermina
    \/ \E i \in 1..Len(tareas) : EnvioTermina(i)
    \/ (\E t \in Hilos : LectorFueraDeHorario(t)) /\ FueraDeCamara
    \/ (\E t \in Hilos : LectorStreamEnMalEstado(t)) /\ FueraDeCamara
    \/ (\E t \in Hilos : LectorEmpiezaLectura(t)) /\ FueraDeCamara
    \/ (\E t \in Hilos : LectorLeeFrame(t)) /\ FueraDeCamara
    \/ (\E t \in Hilos : LectorCopiaFrame(t)) /\ FueraDeCamara
    \/ (\E t \in Hilos : LectorFalloLectura(t)) /\ FueraDeCamara
    \/ (\E t \in Hilos : LectorReconecta(t)) /\ FueraDeCamara
    \/ (\E t \in Hilos : LectorDespierta(t)) /\ FueraDeCamara
    \/ StreamSeDegrada /\ FueraDeCamara
    \/ (\E t \in HilosHeartbeat : HeartbeatIteracion(t)) /\ FueraDeHeartbeat
    \/ PasaTiempo /\ UNCHANGED << varsMonitor, varsCiclo, varsAparte, varsCadencia,
                                  thread_heartbeat, thread_heartbeat_running,
                                  ultimo_heartbeat, latidos, obsH >>

(***************************************************************************)
(* ThermalMonitorClient.procesar_detecciones (main.py)                     *)
(***************************************************************************)

\* ThermalMonitorClient.__init__; pidio_crear, cerro and seleccionada record
\* what the last call of procesar_detecciones did: the call of crear_evento,
\* the close of the event, and the hand-over of the sample as evidence.
ClienteInicial ==
    [ estado_actual |-> "sin_deteccion", id_evento_activo |-> None,
      contador_sin_deteccion |-> 0, contador_con_deteccion |-> 0,
      pidio_crear |-> FALSE, cerro |-> FALSE, seleccionada |-> FALSE ]

InitCliente == cliente = ClienteInicial

\* if self.contador_sin_deteccion >= self.umbral_cerrar_evento
ClienteAlcanzaUmbralCerrar(c) == c >= cliente_umbral_cerrar_evento

\* if self.contador_con_deteccion >= self.umbral_crear_evento
ClienteAlcanzaUmbralCrearMayor(c) == c > cliente_umbral_crear_evento
ClienteAlcanzaUmbralCrear(c) == c >= cliente_umbral_crear_evento

\* procesar_detecciones with an empty list of detections.
ClienteSinDeteccion(c) ==
    LET sin == c.contador_sin_deteccion + 1
        alcanza == ClienteAlcanzaUmbralCerrar(sin)
        cierra == alcanza /\ c.id_evento_activo # None
    IN  [ estado_actual |-> IF cierra THEN "sin_deteccion" ELSE c.estado_actual,
          id_evento_activo |-> IF cierra THEN None ELSE c.id_evento_activo,
          contador_sin_deteccion |-> IF alcanza THEN 0 ELSE sin,
          contador_con_deteccion |-> 0,
          pidio_crear |-> FALSE, cerro |-> cierra, seleccionada |-> FALSE ]

\* procesar_detecciones with at least one detection; respuesta is what
\* self.crear_evento() returns if it is called.
ClienteConDeteccion(c, respuesta) ==
    LET con == c.contador_con_deteccion + 1
        crea == ClienteAlcanzaUmbralCrear(con) /\ c.id_evento_activo = None
        id == IF crea THEN respuesta ELSE c.id_evento_activo
    IN  [ estado_actual |-> IF crea /\ Truthy(id) THEN "evento_activo"
                            ELSE c.estado_actual,
          id_evento_activo |-> id,
          contador_sin_deteccion |-> 0,
          contador_con_deteccion |-> con,
          pidio_crear |-> crea, cerro |-> FALSE,
          seleccionada |-> id # None ]

\* What a sample fed to both implementations leaves alone.
FueraDePar ==
    UNCHANGED << varsCamara, varsHeartbeat, varsCiclo, varsCadencia,
                 varsConfig >>

\* The same sample without detections goes to ThermalMonitor and to
\* ThermalMonitorClient.
ParMuestraSinDeteccion ==
    /\ MuestraSinDeteccion
    /\ cliente' = ClienteSinDeteccion(cliente)
    /\ FueraDePar

\* The same sample with detections goes to both, and crear_evento gives
\* both the same answer.
ParMuestraConDeteccion ==
    /\ Len(historia) < MaxMuestras
    /\ historia' = Append(historia, TRUE)
    /\ \E respuesta \in RespuestasCrear :
           /\ ProcesarConDeteccion(respuesta)
           /\ cliente' = ClienteConDeteccion(cliente, respuesta)
    /\ FueraDePar

NextPar ==
    \/ ParMuestraSinDeteccion
    \/ ParMuestraConDeteccion

Init ==
    /\ InitMonitor /\ InitCamara /\ InitHeartbeat /\ InitCiclo /\ InitCadencia
    /\ InitConfig /\ InitCliente

\* Any Config may be handed to validar before the system runs.
InitValidar ==
    /\ InitMonitor /\ InitCamara /\ InitHeartbeat /\ InitCiclo /\ InitCadencia
    /\ config \in Configs
    /\ obsConfig = ObsConfigInicial
    /\ InitCliente

SpecConfig == InitValidar /\ [][NextConfig]_vars

SpecPar == Init /\ [][NextPar]_vars


SpecFrame == Init /\ [][NextFrame]_vars

SpecEvidencia == Init /\ [][NextEvidencia]_vars

SpecHorario == Init /\ [][NextHorario]_vars

SpecCadencia == Init /\ [][NextCadencia]_vars

SpecHilos == Init /\ [][NextHilos]_vars

SpecLiberar == Init /\ [][NextLiberar]_vars

\* The scheduler runs a thread that can take a step, and time passes while
\* every thread is blocked.
SpecSano ==
    /\ Init
    /\ [][NextSano]_vars
    /\ WF_vars(PasoLectorSano)
    /\ WF_vars(PasaTiempoSano /\ FueraDeCamara)

\* The scheduler runs every thread that can take a step, a blocking call
\* that can return does, and time passes while every thread is blocked.
SpecParada ==
    /\ Init
    /\ [][NextParada]_vars
    /\ WF_vars(PasoLectorParada)
    /\ WF_vars(PasoHeartbeatParada)
    /\ WF_vars(PasoCicloParada)
    /\ WF_vars(RetornaJoinParada)
    /\ WF_vars(PasaTiempoLector)
    /\ WF_vars(PasaTiempoLatido)

SpecMonitor == Init /\ [][NextMonitor]_vars

SpecCiclo == Init /\ [][NextCiclo]_vars

(***************************************************************************)
(* Properties of the debounce state machine                                *)
(***************************************************************************)

\* Length of the run of samples equal to b that ends the history h.
RECURSIVE Racha(_, _)
Racha(h, b) ==
    IF h = << >> \/ h[Len(h)] # b THEN 0
    ELSE 1 + Racha(SubSeq(h, 1, Len(h) - 1), b)

RachaCon == Racha(historia, TRUE)
RachaSin == Racha(historia, FALSE)

\* C1: api.crear_evento is called on a sample if and only if no event is
\* active and the sample completes a run of at least umbral_crear_evento
\* consecutive samples with detections.
C1_CreacionSiiUmbral ==
    historia # << >> =>
        (ultima.pidio_crear <=>
            (ultima.id_antes = None /\ RachaCon >= umbral_crear_evento))

\* Two samples without detection, then three with: created on the third.
C1_Testigo ==
    /\ historia = << FALSE, FALSE, TRUE, TRUE, TRUE >>
    /\ ultima.pidio_crear
    /\ ultima.respuesta # None

\* C2 (as claimed): api.crear_evento is attempted at most once in one
\* uninterrupted detection streak, also when the attempt failed.
C2_UnIntentoPorRacha == intentos_racha <= 1

\* C2 (amended): while every creation of the current streak has failed, the
\* engine stays in sin_deteccion with no event id, and every sample of the
\* streak from the one that reached umbral_crear_evento on has called
\* api.crear_evento again.
C2_ReintentaEnCadaMuestra ==
    (id_evento_activo = None /\ RachaCon >= umbral_crear_evento) =>
        /\ estado_actual = "sin_deteccion"
        /\ ultima.pidio_crear
        /\ ultima.respuesta = None
        /\ intentos_racha = RachaCon - umbral_crear_evento + 1

\* A failed creation on the threshold sample followed by a second attempt on
\* the next sample of the same streak.
C2_Testigo ==
    /\ RachaCon = umbral_crear_evento + 1
    /\ intentos_racha = 2
    /\ id_evento_activo = None

\* C3: the active event is closed on a sample if and only if an event is
\* active and the sample is the umbral_cerrar_evento-th consecutive sample
\* without detections; closing clears the id and sets sin_deteccion.
C3_CierreSiiUmbral ==
    historia # << >> =>
        /\ ultima.cerro <=>
               (ultima.id_antes # None /\ RachaSin = umbral_cerrar_evento)
        /\ ultima.cerro =>
               (id_evento_activo = None /\ estado_actual = "sin_deteccion")
        /\ (ultima.id_antes # None /\ RachaSin > 0 /\ ~ultima.cerro) =>
               (id_evento_activo = ultima.id_antes
                   /\ RachaSin < umbral_cerrar_evento)

\* An event closed by the fifth consecutive sample without detections.
C3_Testigo ==
    /\ ultima.cerro
    /\ RachaSin = umbral_cerrar_evento
    /\ id_evento_activo = None

\* C4 (as claimed): between samples estado_actual is "evento_activo" exactly
\* when id_evento_activo is set.
C4_EstadoSiiId ==
    (estado_actual = "evento_activo") <=> (id_evento_activo # None)

C6_DespachoPorMuestra ==
    historia # << >> =>
        /\ (historia[Len(historia)] /\ id_evento_activo # None) =>
               (ultima.despachos = 1
                   /\ ultima.id_despachado = id_evento_activo)
        /\ ultima.despachos \in 0..1

\* The sample that crossed the creation threshold dispatched its evidence.
C6_Testigo ==
    /\ ultima.pidio_crear
    /\ ultima.respuesta # None
    /\ ultima.despachos = 1

\* The last call of procesar_detecciones changed estado_actual.
TransicionACerrado ==
    /\ historia # << >>
    /\ ultima.estado_antes = "evento_activo"
    /\ estado_actual = "sin_deteccion"

TransicionAActivo ==
    /\ historia # << >>
    /\ ultima.estado_antes = "sin_deteccion"
    /\ estado_actual = "evento_activo"

\* C21 (as claimed): immediately after each of the two state transitions
\* both debounce counters are 0.
C21_ContadoresACero ==
    (TransicionACerrado \/ TransicionAActivo) =>
        (contador_con_deteccion = 0 /\ contador_sin_deteccion = 0)

\* C21 (amended): after the transition evento_activo -> sin_deteccion both
\* counters are 0; after the transition sin_deteccion -> evento_activo
\* contador_sin_deteccion is 0 and contador_con_deteccion is not reset: it
\* is the length of the current detection streak, at least
\* umbral_crear_evento, and exactly umbral_crear_evento when the first
\* creation of the streak succeeded.  contador_con_deteccion is reset only
\* by a sample without detections.
C21_ContadoresTrasTransicion ==
    /\ contador_con_deteccion = RachaCon
    /\ TransicionACerrado =>
           (contador_con_deteccion = 0 /\ contador_sin_deteccion = 0)
    /\ TransicionAActivo =>
           /\ contador_sin_deteccion = 0
           /\ contador_con_deteccion >= umbral_crear_evento
           /\ contador_con_deteccion = umbral_crear_evento + intentos_racha - 1

\* An event was closed and a later streak created the next event on its
\* threshold sample: the counter of detections stands at the threshold.
C21_Testigo ==
    /\ TransicionAActivo
    /\ contador_con_deteccion = umbral_crear_evento
    /\ Len(historia) > umbral_crear_evento + umbral_cerrar_evento

\* C29: between calls of procesar_detecciones at most one of the two
\* counters is non-zero, and contador_sin_deteccion stays below
\* umbral_cerrar_evento: it is the length of the current run of samples
\* without detections modulo the threshold, with or without an active event.
C29_ContadoresExcluyentes ==
    /\ contador_con_deteccion = 0 \/ contador_sin_deteccion = 0
    /\ contador_sin_deteccion < umbral_cerrar_evento
    /\ contador_sin_deteccion = RachaSin % umbral_cerrar_evento

\* With no event active the run of samples without detections has reached
\* the threshold and the counter is back at 0.
C29_Testigo ==
    /\ RachaSin = umbral_cerrar_evento
    /\ ultima.id_antes = None
    /\ ~ultima.cerro
    /\ contador_sin_deteccion = 0

\* C31: a detection sample on which api.crear_evento was called and returned
\* None leaves id_evento_activo None and estado_actual "sin_deteccion",
\* both as before the sample, and dispatches no evidence; the counters are
\* the ones of a detection sample.
C31_CreacionFallida ==
    (ultima.pidio_crear /\ ultima.respuesta = None) =>
        /\ id_evento_activo = None
        /\ ultima.id_antes = None
        /\ estado_actual = "sin_deteccion"
        /\ ultima.estado_antes = "sin_deteccion"
        /\ ultima.despachos = 0
        /\ ultima.id_despachado = None
        /\ ~ultima.cerro
        /\ abiertos = 0
        /\ contador_sin_deteccion = 0
        /\ contador_con_deteccion = RachaCon

\* The creation failed on the sample that completed the threshold.
C31_Testigo ==
    /\ ultima.pidio_crear
    /\ ultima.respuesta = None
    /\ contador_con_deteccion = umbral_crear_evento

(***************************************************************************)
(* Properties of the reader loop                                           *)
(***************************************************************************)

\* Some reader thread is inside the steady-state cap.read().
Leyendo == \E t \in Hilos : lectores[t].pc = "leyendo"

\* The current reader thread was ended by an exception.
LectorCaido ==
    thread_lectura # None /\ lectores[thread_lectura[1]].origen = "excepcion"

C8_SeparacionMinima ==
    obs.separacion = None \/ obs.separacion[1] >= timeout_reconexion

\* C9 (as claimed): after detener_lectura_continua has returned, the reader
\* loop writes frame_actual no more.
C9_SinEscrituraTrasDetener == ~obs.escritura_tras_detener

LectoresVivos == { t \in Hilos : EstaVivo(lectores[t]) }
HeartbeatsVivos == { t \in HilosHeartbeat : EstaVivo(latidos[t]) }

\* C10: starting and stopping are idempotent. At most one reader thread and
\* at most one heartbeat thread is alive at any time, so a start requested
\* while the thread is alive starts no second one; and after a stop has
\* returned, further stops leave the running flag (false) and the thread
\* reference as the first stop left them.
C10_ArranqueParadaIdempotentes ==
    /\ Cardinality(LectoresVivos) <= 1
    /\ Cardinality(HeartbeatsVivos) <= 1
    /\ obs.tras_detener # None =>
           /\ ~thread_lectura_running
           /\ obs.tras_detener = Some(<< thread_lectura_running, thread_lectura >>)
    /\ obsH.tras_detener # None =>
           /\ ~thread_heartbeat_running
           /\ obsH.tras_detener =
                  Some(<< thread_heartbeat_running, thread_heartbeat >>)

\* detener_lectura_continua has returned twice in a row, both times by the
\* join timeout, and a start requested meanwhile found the thread alive.
C10_Testigo ==
    /\ obs.detenciones = 2
    /\ obs.inicio_rechazado
    /\ LectoresVivos # {}

\* C11 (as claimed): obtener_frame never returns a frame older than the last
\* successful cap.read() of the stream handle, the probe read of a
\* reconnection included.
C11_FrameMasReciente == obtener_frame # None => ~obs.atrasado

\* C16 (as claimed): the reader loop ends only on the stop signal; no failure
\* inside an iteration, the except handler included, ends the thread.
C16_SoloTerminaPorSenal ==
    \A t \in Hilos : lectores[t].pc = "terminado" => lectores[t].origen # "excepcion"

CamposDeCaptura ==
    << cap, frame_actual, errores_consecutivos, ultima_reconexion, obs >>

\* C17: an iteration of the reader loop that observes en_horario_callback()
\* false only sleeps: it goes from the loop head to the 10 s sleep and back
\* to the loop head, and neither step checks the stream, reads, reconnects
\* or writes frame_actual.
C17_SinCapturaFueraDeHorario ==
    /\ [](\A t \in Hilos :
              lectores[t].origen = "fuera_horario" =>
                  /\ lectores[t].pc = "dormido"
                  /\ lectores[t].despierta <= reloj + EsperaFueraHorario)
    /\ [][\A t \in Hilos :
              /\ (lectores[t].pc = "cabeza"
                      /\ lectores'[t].origen = "fuera_horario") =>
                     UNCHANGED CamposDeCaptura
              /\ (lectores[t].origen = "fuera_horario"
                      /\ lectores'[t] # lectores[t]) =>
                     (lectores'[t].pc = "cabeza" /\ UNCHANGED CamposDeCaptura)
         ]_vars

\* Outside operating hours the thread sleeps although the handle is healthy
\* and frames were being read.
C17_Testigo ==
    /\ \E t \in Hilos : lectores[t].origen = "fuera_horario"
    /\ cap = "abierta"
    /\ frame_actual # None

\* C22: in the steady-state read a successful read enters frame_lock,
\* copies the frame into frame_actual, releases the lock and sets
\* errores_consecutivos to 0; a failed read adds exactly 1 to
\* errores_consecutivos and leaves frame_actual and the lock alone; a read is
\* only attempted with the counter below max_errores_consecutivos, so the
\* failed read goes to the forced reconnection exactly when the counter
\* reaches max_errores_consecutivos, and otherwise back to the loop (after
\* the 1 s sleep of the except handler if the read raised).
C22_LecturaEnRegimen ==
    /\ [](Leyendo => errores_consecutivos < max_errores_consecutivos)
    /\ [][\A t \in Hilos :
              LET sig == lectores'[t]
              IN  /\ (lectores[t].pc = "leyendo" /\ sig.pc = "copiando") =>
                         /\ frame_lock = "libre" /\ frame_lock' = "lector"
                         /\ UNCHANGED << frame_actual, errores_consecutivos >>
                  /\ (lectores[t].pc = "copiando" /\ sig # lectores[t]) =>
                         /\ frame_lock = "lector" /\ frame_lock' = "libre"
                         /\ frame_actual' # None
                         /\ errores_consecutivos' = 0
                         /\ sig.pc = "cabeza"
                  /\ (lectores[t].pc = "leyendo"
                          /\ sig.pc \notin { "leyendo", "copiando" }) =>
                         /\ errores_consecutivos' = errores_consecutivos + 1
                         /\ UNCHANGED << frame_actual, frame_lock >>
                         /\ sig.pc = "espera_reconexion" =>
                                /\ errores_consecutivos' = max_errores_consecutivos
                                /\ sig.origen \in { "forzada", "except" }
                         /\ (errores_consecutivos' = max_errores_consecutivos
                                 /\ sig # Caido) => sig.pc = "espera_reconexion"
                         /\ (errores_consecutivos' < max_errores_consecutivos
                                 /\ sig # Caido) => sig.pc \in { "cabeza", "dormido" }
         ]_vars

\* The read that failed was the max_errores_consecutivos-th in a row: the
\* thread is in the forced reconnection, and the frame of an earlier
\* successful read is still in the slot.
C22_Testigo ==
    /\ \E t \in Hilos : lectores[t].pc = "espera_reconexion"
                            /\ lectores[t].origen = "forzada"
    /\ errores_consecutivos = max_errores_consecutivos
    /\ frame_actual # None
    /\ frame_lock = "libre"

\* C23: a reconnection that succeeds sets errores_consecutivos to 0, sets
\* ultima_reconexion to the current time and notifies the reconnection; one
\* that fails notifies an error, leaves ultima_reconexion as it was, does not
\* reset the counter (the health-check path adds 1 to it), and the thread
\* sleeps (5 s, or 1 s in the except handler) and goes on with the loop.
C23_ResultadoDeReconexion ==
    [][\A t \in Hilos :
           LET sig == lectores'[t]
               origen == lectores[t].origen
           IN  (lectores[t].pc = "espera_reconexion"
                    /\ sig.pc # "espera_reconexion") =>
                   /\ obs'.ultimo_intento = Some(reloj)
                   /\ cap' = "abierta" =>
                          /\ errores_consecutivos' = 0
                          /\ ultima_reconexion' = reloj
                          /\ obs'.aviso = "reconexion"
                          /\ sig = IF origen = "except"
                                   THEN Dormido(reloj + EsperaTrasExcepcion)
                                   ELSE EnCabeza
                   /\ cap' # "abierta" =>
                          /\ obs'.aviso = "error"
                          /\ ultima_reconexion' = ultima_reconexion
                          /\ errores_consecutivos' =
                                 IF origen = "salud"
                                 THEN errores_consecutivos + 1
                                 ELSE errores_consecutivos
                          /\ sig = Dormido(reloj + IF origen = "except"
                                                   THEN EsperaTrasExcepcion
                                                   ELSE EsperaTrasFallo)
      ]_vars

\* Two reconnections from the health check have failed: the thread sleeps
\* before the next attempt, the counter stands at 2 and ultima_reconexion
\* is still the initial one.
C23_Testigo ==
    /\ obs.aviso = "error"
    /\ errores_consecutivos = 2
    /\ ultima_reconexion = 0
    /\ \E t \in Hilos : lectores[t].pc = "dormido" /\ lectores[t].despierta > reloj

\* C24: a steady-state cap.read() is started only from the loop head of an
\* iteration whose health check passed (handle opened, positive size); an
\* iteration that finds the handle unhealthy goes to the reconnection (or
\* sleeps outside the operating hours, or ends on the stop signal), and from
\* the reconnection of the health check the thread only goes back to the
\* loop head or to a sleep, never into a read.
C24_SinLecturaEnMalEstado ==
    [][\A t \in Hilos :
           LET sig == lectores'[t]
           IN  /\ (lectores[t].pc # "leyendo" /\ sig.pc = "leyendo") =>
                      /\ lectores[t].pc = "cabeza"
                      /\ thread_lectura_running
                      /\ cap = "abierta"
               /\ (lectores[t].pc = "cabeza" /\ cap # "abierta"
                       /\ sig # lectores[t]) =>
                      \/ sig.pc = "espera_reconexion" /\ sig.origen = "salud"
                      \/ sig = TrasFueraDeHorario
                      \/ sig.pc = "terminado" /\ ~thread_lectura_running
               /\ (lectores[t].origen = "salud" /\ sig # lectores[t]) =>
                      /\ sig.pc \in { "espera_reconexion", "cabeza", "dormido" }
                      /\ UNCHANGED frame_actual
      ]_vars

\* The stream broke after frames had been read: the iteration that found
\* the handle unhealthy is in the reconnection.
C24_Testigo ==
    /\ \E t \in Hilos : lectores[t].pc = "espera_reconexion"
                            /\ lectores[t].origen = "salud"
    /\ cap = "degradada"
    /\ frame_actual # None

\* C34: while the last reconnection attempt is a failed one the handle is
\* None or not opened and no thread is inside a steady-state cap.read() or
\* storing its frame; no read is started in such a state.
C34_SinLecturaTrasReconexionFallida ==
    /\ [](obs.aviso = "error" =>
              /\ cap \in { "None", "cerrada" }
              /\ ~EstadoStreamOk
              /\ \A t \in Hilos : lectores[t].pc \notin { "leyendo", "copiando" })
    /\ [][\A t \in Hilos :
              (lectores[t].pc # "leyendo" /\ lectores'[t].pc = "leyendo") =>
                  obs.aviso # "error"
        ]_vars

\* After a failed reconnection and its sleep the thread is back at the loop
\* head, the handle not opened, the flag still set and a frame in the slot.
C34_Testigo ==
    /\ obs.aviso = "error"
    /\ cap = "cerrada"
    /\ thread_lectura_running
    /\ frame_actual # None
    /\ \E t \in Hilos : lectores[t].pc = "cabeza"

\* C35 (as claimed): when iniciar_lectura_continua returns after a
\* detener_lectura_continua has returned, thread_lectura_running is true and
\* a reader thread is alive, also when the stopped thread was still alive at
\* the call.
C35_ReinicioDejaLector ==
    [][(IniciarLectura /\ obs.detenido) =>
           /\ thread_lectura_running'
           /\ \E t \in DOMAIN lectores' : EstaVivo(lectores'[t])
      ]_vars

\* C36 (as claimed): when liberar releases the handle and sets it to None, no
\* reader thread is inside cap.read() or on its way to open a new handle in
\* _intentar_reconexion.
C36_LiberaSinLector ==
    [][LiberaCap =>
           \A t \in Hilos : lectores[t].pc \notin { "leyendo", "espera_reconexion" }
      ]_vars

\* A reader thread is in its loop.
LectorEnBucle == thread_lectura_running /\ LectoresVivos # {}

\* A reader thread is inside `with self.frame_lock:`, storing the frame it
\* has just read.
AlmacenaFrame == \E t \in Hilos : lectores[t].pc = "copiando"

\* C37: once the stream is healthy, from every state of the loop the reader
\* thread gets to store a frame it has read, and with that frame in the slot
\* errores_consecutivos is back at 0.
C37_Autocuracion ==
    /\ (Sano /\ LectorEnBucle) ~> AlmacenaFrame
    /\ AlmacenaFrame ~>
           (errores_consecutivos = 0 /\ frame_actual # None /\ ~AlmacenaFrame)

\* The stream became healthy with the loop in a failed state, the thread
\* reconnected after that and has stored a frame.
C37_Testigo ==
    /\ Sano
    /\ obs.aviso = "reconexion"
    /\ obs.ultimo_intento # None
    /\ obs.ultimo_intento[1] > RelojSano
    /\ frame_actual # None
    /\ errores_consecutivos = 0
    /\ cap = "abierta"

\* C38: termination on stop. A reader thread that is alive while
\* thread_lectura_running is false ends, a heartbeat thread that is alive
\* while thread_heartbeat_running is false ends, and the main thread that is
\* inside ejecutar_ciclo while running is false leaves the loop and runs
\* detener, whatever the loop was doing when the flag was cleared, given
\* that every read, sleep, reconnection, upload and join returns.
C38_TerminaTrasParada ==
    /\ \A t \in 1..MaxHilos :
           (t \in LectoresVivos /\ ~thread_lectura_running)
               ~> (t \notin LectoresVivos)
    /\ \A t \in 1..MaxHilos :
           (t \in HeartbeatsVivos /\ ~thread_heartbeat_running)
               ~> (t \notin HeartbeatsVivos)
    /\ (pcC \in EnCiclo /\ ~running) ~> (pcC = "detenido")

\* detener was called by another thread while the main loop was running
\* with an evidence task dispatched: the loop has seen running false and
\* has left, detener has run again, and the reader and the heartbeat thread
\* that iniciar started have both ended.
C38_Testigo ==
    /\ pcC = "detenido"
    /\ obsC.causa_fin = "running_falso"
    /\ tareas # << >>
    /\ LectoresVivos = {} /\ Hilos # {}
    /\ HeartbeatsVivos = {} /\ HilosHeartbeat # {}

\* C39: for every configuration accepted by Config.validar(), the
\* operating-hours predicate hora_inicio <= hour < hora_fin is true for at
\* least one hour of the day.
C39_AceptadaPuedeMuestrear ==
    obsConfig.validada = Some(TRUE) =>
        \E hora_actual \in HorasDelDia :
            esta_en_horario_operacion(config, hora_actual)

\* C40: fed the same samples and the same answers of crear_evento, the
\* monolithic ThermalMonitorClient and the modular ThermalMonitor are, after
\* every sample, in the same estado_actual, both with or both without an
\* event id, with the same two counters; they have asked for an event on
\* the same samples and have selected the same samples for evidence.
C40_MismaMaquina ==
    /\ cliente.estado_actual = estado_actual
    /\ (cliente.id_evento_activo # None) = (id_evento_activo # None)
    /\ cliente.contador_con_deteccion = contador_con_deteccion
    /\ cliente.contador_sin_deteccion = contador_sin_deteccion
    /\ cliente.pidio_crear = ultima.pidio_crear
    /\ cliente.seleccionada = (ultima.despachos = 1)

\* In one streak of detections crear_evento failed and was called again
\* on the next sample, where it returned an id: both implementations made
\* that second call, are in evento_activo and have selected the sample as
\* evidence.
C40_Testigo ==
    /\ intentos_racha >= 2
    /\ ultima.pidio_crear
    /\ Truthy(ultima.respuesta)
    /\ cliente.pidio_crear
    /\ cliente.seleccionada
    /\ cliente.estado_actual = "evento_activo"

\* C33: no step empties the slot frame_actual once it holds a frame, so from
\* then on obtener_frame returns a frame: also while reads fail, during a
\* reconnection, outside the operating hours, and after
\* detener_lectura_continua and liberar.
C33_FrameNuncaSeVacia ==
    /\ [][frame_actual # None => frame_actual' # None]_vars
    /\ [](frame_actual # None => obtener_frame = frame_actual)

\* The slot still holds the frame stored before the outage, after failed
\* reads, a stop and the release of the camera.
C33_Testigo ==
    /\ pcM = "liberado"
    /\ cap = "None"
    /\ errores_consecutivos > 0
    /\ obtener_frame # None

(***************************************************************************)
(* Properties of the heartbeat loop                                        *)
(***************************************************************************)

\* The instant from which the next heartbeat is counted: the last heartbeat
\* sent by the running loop, or the call of iniciar_heartbeat.
BaseHeartbeat ==
    IF obsH.primero # None THEN obsH.ultimo_envio[1] ELSE obsH.inicio

\* C20: on every 30 s tick the loop sends exactly one heartbeat if at least
\* intervalo_heartbeat seconds have passed since the previous one (or since
\* iniciar_heartbeat) and none otherwise, inside and outside the operating
\* hours alike; two heartbeats are never less than intervalo_heartbeat
\* apart, and the first is not sent before intervalo_heartbeat after
\* iniciar_heartbeat.
C20_CadenciaHeartbeat ==
    /\ [](/\ obsH.separacion # None =>
                  obsH.separacion[1] >= intervalo_heartbeat
          /\ obsH.primero # None =>
                  obsH.primero[1] - obsH.inicio >= intervalo_heartbeat
          /\ \A t \in HilosHeartbeat :
                 LET tick == latidos[t].despierta - EsperaHeartbeat
                 IN  latidos[t].pc = "dormido" =>
                         /\ latidos[t].hizo = "enviado" =>
                                (obsH.ultimo_envio = Some(tick)
                                    /\ ultimo_heartbeat = tick)
                         /\ latidos[t].hizo = "ninguno" =>
                                tick - BaseHeartbeat < intervalo_heartbeat
                         /\ latidos[t].hizo = "fallo" =>
                                tick - BaseHeartbeat >= intervalo_heartbeat)
    /\ [][obsH'.enviados \in { obsH.enviados, obsH.enviados + 1 }]_vars

\* Two heartbeats sent intervalo_heartbeat apart, the second one outside the
\* operating hours.
C20_Testigo ==
    /\ obsH.enviados = 2
    /\ obsH.separacion = Some(intervalo_heartbeat)
    /\ obsH.ultimo_mensaje = "fuera_horario"

(***************************************************************************)
(* Properties of the frame slot                                            *)
(***************************************************************************)

\* C26: frame_lock is held exactly while the reader thread is inside its
\* copy-in and while the main thread is inside obtener_frame: never while
\* the reader is in cap.read(), in a reconnection or asleep, never while
\* the detector runs; frame_actual is written only by the step that holds
\* the lock for the reader, and read by the main thread only in the step
\* that holds it for obtener_frame.
C26_LockSoloEnCopia ==
    /\ [](/\ frame_lock \in { "libre", "lector", "ciclo" }
          /\ frame_lock = "lector" <=>
                 (\E t \in Hilos : lectores[t].pc = "copiando")
          /\ frame_lock = "ciclo" <=> pcC = "en_lock"
          /\ Cardinality({ t \in Hilos : lectores[t].pc = "copiando" }) <= 1)
    /\ [][/\ frame_actual' # frame_actual =>
                 (frame_lock = "lector" /\ frame_lock' = "libre")
          /\ (pcC = "en_lock" /\ pcC' # "en_lock") =>
                 /\ frame_lock = "ciclo" /\ frame_lock' = "libre"
                 /\ pcC' = "detectando" <=> frame_actual # None
                 /\ UNCHANGED frame_actual
         ]_vars

\* The detector runs on the copy of a frame while the reader thread is
\* blocked in cap.read(): nobody holds the lock.
C26_Testigo ==
    /\ pcC = "detectando"
    /\ \E t \in Hilos : lectores[t].pc = "leyendo" /\ lectores[t].despierta > reloj
    /\ frame_lock = "libre"
    /\ frame_actual # None

CamposDelLector == << errores_consecutivos, ultima_reconexion >>

CamposDelCiclo == << estado_actual, id_evento_activo, contador_sin_deteccion,
                     contador_con_deteccion >>

\* C27: while a reader thread is alive, every step that changes
\* errores_consecutivos or ultima_reconexion is a step of that thread; every
\* step that changes estado_actual, id_evento_activo or a debounce counter
\* is the main thread running procesar_detecciones; a step of the heartbeat
\* thread or of a thread that submits evidence changes none of the six.
C27_UnSoloEscritor ==
    [][/\ (LectoresVivos # {} /\ CamposDelLector' # CamposDelLector) =>
              /\ \E t \in LectoresVivos : lectores'[t] # lectores[t]
              /\ Len(lectores') = Len(lectores)
              /\ UNCHANGED << pcC, pcM, latidos, tareas, CamposDelCiclo >>
       /\ CamposDelCiclo' # CamposDelCiclo =>
              /\ pcC = "detectando"
              /\ Len(historia') = Len(historia) + 1
              /\ UNCHANGED << lectores, latidos, CamposDelLector >>
              /\ \A i \in DOMAIN tareas : tareas'[i] = tareas[i]
       /\ latidos' # latidos =>
              (latidos = << >> \/ UNCHANGED << CamposDelLector, CamposDelCiclo >>)
       /\ (\E i \in DOMAIN tareas : tareas'[i] # tareas[i]) =>
              UNCHANGED << CamposDelLector, CamposDelCiclo >>
      ]_vars

\* The reader thread has counted failed reads and reconnected, the main
\* thread has created an event, the heartbeat thread has run an iteration
\* and the evidence of the sample has been submitted.
C27_Testigo ==
    /\ obs.aviso = "reconexion"
    /\ ultima_reconexion > Reloj0
    /\ id_evento_activo # None
    /\ \E t \in HilosHeartbeat : latidos[t].pc = "dormido"
    /\ \E i \in DOMAIN tareas :
           /\ tareas[i].paso = "fin"
           /\ \E k \in DOMAIN tareas[i].hechos : tareas[i].hechos[k].paso = "enviar"

(***************************************************************************)
(* Properties of the sampling cadence                                      *)
(***************************************************************************)

\* The interval that belongs to a state of the debounce machine.
IntervaloDe(estado) ==
    IF estado = "evento_activo" THEN tiempo_foto_con_deteccion
    ELSE tiempo_foto_sin_deteccion

\* C25: every iteration of ejecutar_ciclo takes the interval from the state
\* as it is at that tick (tiempo_foto_con_deteccion in evento_activo,
\* tiempo_foto_sin_deteccion in sin_deteccion); it performs a sample only if
\* at least that interval has passed since the last sample performed (since
\* the start of the loop before the first), and if it only ticks, less than
\* the interval has passed.
C25_CadenciaAdaptativa ==
    /\ [](/\ obsT.hizo \in { "muestra", "sin_frame" } =>
                  obsT.transcurrido >= IntervaloDe(obsT.estado)
          /\ obsT.hizo = "tick" =>
                  obsT.transcurrido < IntervaloDe(obsT.estado))
    /\ [][obsT' # obsT =>
              (obsT'.hizo = "nada" \/ obsT'.estado = estado_actual)]_vars

\* Three samples with detections 5 s apart created the event, five samples
\* without detections 2 s apart closed it, and the next sample was taken
\* 5 s after the one that closed it.
C25_Testigo ==
    /\ obsT.hizo = "muestra"
    /\ obsT.estado = "sin_deteccion"
    /\ obsT.transcurrido = tiempo_foto_sin_deteccion
    /\ Len(historia) = umbral_crear_evento + umbral_cerrar_evento + 1
    /\ \A k \in 1..(umbral_crear_evento + umbral_cerrar_evento) :
           historia[k] = (k <= umbral_crear_evento)
    /\ obsT.base = Reloj0
                   + (umbral_crear_evento + 1) * tiempo_foto_sin_deteccion
                   + umbral_cerrar_evento * tiempo_foto_con_deteccion

(***************************************************************************)
(* Properties of the evidence pipeline                                     *)
(***************************************************************************)

Tareas == 1..Len(tareas)

\* The task tr made step p with result ok; the task attempted step p.
Hecho(tr, p, ok) == \E k \in 1..Len(tr.hechos) : tr.hechos[k] = Paso(p, ok)
Intento(tr, p) == \E k \in 1..Len(tr.hechos) : tr.hechos[k].paso = p

\* C28: nothing orders the submissions of two tasks: whenever the submission
\* of a task is pending it can be the next to complete, also while the
\* submission of a task dispatched for an earlier sample is still pending.
C28_SinOrdenEntreTareas ==
    \A j \in Tareas : tareas[j].paso = "enviar" => ENABLED EnvioTermina(j)

\* The submission of the later task has completed and that of the earlier
\* task has not.
C28_Testigo ==
    \E i, j \in Tareas :
        /\ i < j
        /\ tareas[i].paso = "enviar"
        /\ tareas[j].paso = "fin"
        /\ Intento(tareas[j], "enviar")

\* C30: a task is added only by a sample with detections that leaves an
\* event id set, and carries that id; the id of a task never changes, and
\* the id a task submits is the one it was dispatched with, whatever
\* id_evento_activo is by then.
C30_IdDelDespacho ==
    /\ [][Len(tareas') > Len(tareas) =>
              /\ Len(historia') = Len(historia) + 1
              /\ historia'[Len(historia')]
              /\ id_evento_activo' # None
              /\ Len(tareas') = Len(tareas) + 1
              /\ tareas'[Len(tareas')].evento_id = id_evento_activo'
        ]_vars
    /\ [][\A i \in Tareas :
              /\ i \in DOMAIN tareas'
              /\ tareas'[i].evento_id = tareas[i].evento_id
        ]_vars
    /\ [](\A i \in Tareas :
              /\ tareas[i].evento_id # None
              /\ Intento(tareas[i], "enviar") =>
                     tareas[i].enviado = tareas[i].evento_id)

\* The event of a task was closed and a new event created while the
\* submission of the task was pending, and the task then submitted under
\* the id of the closed event.
C30_Testigo ==
    \E i \in Tareas :
        /\ Intento(tareas[i], "enviar")
        /\ tareas[i].enviado = tareas[i].evento_id
        /\ id_evento_activo # None
        /\ id_evento_activo # tareas[i].evento_id
        /\ estado_actual = "evento_activo"

OrdenPasos == << "persistir", "subir", "enviar", "borrar" >>

\* C13: every task makes its steps in the order persist, upload, submit,
\* delete, each at most once, and a step is made only if all the steps
\* before it succeeded; after a failed step the task is over.
C13_OrdenEstricto ==
    /\ \A i \in Tareas :
           LET h == tareas[i].hechos
           IN  /\ Len(h) \in 1..Len(OrdenPasos)
               /\ \A k \in 1..Len(h) :
                      /\ h[k].paso = OrdenPasos[k]
                      /\ k < Len(h) => h[k].ok
               /\ ~h[Len(h)].ok => tareas[i].paso = "fin"
               /\ tareas[i].paso = "subir" => (i = Len(tareas) /\ pcC = "subiendo")
    /\ pcC = "subiendo" => (tareas # << >> /\ tareas[Len(tareas)].paso = "subir")

\* One task went through its four steps, another one stopped at the failed
\* upload.
C13_Testigo ==
    /\ \E i \in Tareas :
           tareas[i].hechos = << Paso("persistir", TRUE), Paso("subir", TRUE),
                                 Paso("enviar", TRUE), Paso("borrar", TRUE) >>
    /\ \E i \in Tareas :
           /\ tareas[i].hechos = << Paso("persistir", TRUE), Paso("subir", FALSE) >>
           /\ tareas[i].paso = "fin"

\* C14 (as claimed): the sampling thread never waits for a blob upload or
\* for a submission of evidence to finish.
C14_CicloNuncaEspera ==
    \A i \in Tareas :
        tareas[i].paso \in { "subir", "enviar" } => pcC # "subiendo"

(***************************************************************************)
(* Properties of iniciar and ejecutar_ciclo                                *)
(***************************************************************************)

C18_SinMuestreoFueraDeHorario ==
    /\ [](~obsC.en_horario =>
              /\ obsC.hizo = "espera_horario"
              /\ ~obsC.frame_pedido
              /\ ~obsC.detector_invocado)
    /\ [][/\ (pcC = "cabeza" /\ pcC' = "dormido_fuera") =>
                 (~obsC'.en_horario
                     /\ UNCHANGED << varsMonitor, tareas, frame_actual >>)
          /\ pcC = "dormido_fuera" =>
                 (UNCHANGED varsMonitor /\ Len(tareas') = Len(tareas))
         ]_vars

\* Outside the operating hours the loop sleeps although an event is active
\* and a frame is available.
C18_Testigo ==
    /\ pcC = "dormido_fuera"
    /\ id_evento_activo # None
    /\ obtener_frame # None

\* C32: a step of the main loop that finds the operating-hours predicate
\* false, and the sleep that follows it, leave estado_actual,
\* id_evento_activo and both counters as they are; an event is closed only
\* by a step in which the loop, awake and in hours, takes a sample without
\* detections that completes umbral_cerrar_evento of them.
C32_EstadoCongeladoFueraDeHorario ==
    /\ [](pcC = "dormido_fuera" => ~obsC.en_horario)
    /\ [][/\ (pcC' = "dormido_fuera" \/ pcC = "dormido_fuera") =>
                 UNCHANGED << CamposDelCiclo, historia >>
          /\ CamposDelCiclo' # CamposDelCiclo =>
                 (obsC'.en_horario /\ obsC'.hizo = "muestra")
          /\ (id_evento_activo # None /\ id_evento_activo' = None) =>
                 /\ pcC = "cabeza"
                 /\ obsC'.en_horario
                 /\ Len(historia') = Len(historia) + 1
                 /\ ~historia'[Len(historia')]
                 /\ contador_sin_deteccion = umbral_cerrar_evento - 1
                 /\ estado_actual' = "sin_deteccion"
         ]_vars

\* The loop idles out of hours while an event is active and one sample
\* short of being closed.
C32_Testigo ==
    /\ pcC = "dormido_fuera"
    /\ id_evento_activo # None
    /\ estado_actual = "evento_activo"
    /\ contador_sin_deteccion = umbral_cerrar_evento - 1

OrdenArranque == << "validar", "camara", "modelo", "autenticar" >>

\* A reader thread, a heartbeat thread or the main loop has been started.
Arrancado ==
    \/ lectores # << >>
    \/ latidos # << >>
    \/ running
    \/ pcC \in EnCiclo \cup { "fin_ciclo", "detenido" }

\* C19: iniciar validates the configuration, initialises the camera, loads
\* the model and authenticates, in this order, and stops at the first step
\* that fails; the threads and the main loop are started only after all
\* four succeeded, and a failed step makes iniciar return with nothing
\* started.
C19_ArranqueSoloSiTodoOk ==
    /\ Len(pasos) <= Len(OrdenArranque)
    /\ \A k \in 1..Len(pasos) :
           /\ pasos[k].paso = OrdenArranque[k]
           /\ k < Len(pasos) => pasos[k].ok
    /\ Arrancado =>
           (Len(pasos) = Len(OrdenArranque) /\ \A k \in 1..Len(pasos) : pasos[k].ok)
    /\ pcC = "retornado" =>
           (~Arrancado /\ pasos # << >> /\ ~pasos[Len(pasos)].ok)
    /\ (pasos # << >> /\ ~pasos[Len(pasos)].ok) => pcC = "retornado"

\* The camera was initialised and the model loaded, the authentication
\* failed, and iniciar returned.
C19_Testigo ==
    /\ pcC = "retornado"
    /\ Len(pasos) = Len(OrdenArranque)
    /\ cap = "abierta"

====
